---- MODULE Spec2Model ----
(***************************************************************************)
(* The conversation graph of the companion agent (graph/graph.py,          *)
(* graph/edges.py, graph/nodes.py) driven by the WhatsApp webhook handler  *)
(* (interfaces/whatsapp/whatsapp_response.py).                             *)
(*                                                                         *)
(* One request is one webhook POST.  A request runs one turn of the graph  *)
(* on the thread named by the sender's phone number.  The graph is         *)
(* compiled with a checkpointer: the channel values of a thread are        *)
(* loaded when the run starts, the input is merged and saved, and the      *)
(* values are saved again after every node.  A node that raises ends the   *)
(* run; what was saved before stays saved.                                 *)
(*                                                                         *)
(* Calls to language models and to the vector store are external: their    *)
(* results are drawn from small sets, and each of them may raise.          *)
(***************************************************************************)
EXTENDS Integers, Sequences, FiniteSets, TLC

(***************************************************************************)
(* Settings                                                                *)
(***************************************************************************)
TOTAL_MESSAGES_SUMMARY_TRIGGER == 20
TOTAL_MESSAGES_AFTER_SUMMARY == 5
MEMORY_TOP_K == 3
ROUTER_MESSAGES_TO_ANALYZE == 3

(***************************************************************************)
(* Bounds of the model                                                     *)
(***************************************************************************)
\* the webhook POSTs of one behaviour, r1 arriving before r2; each is served
\* by one invocation of whatsapp_handler
Reqs == {"r1", "r2"}
TurnNo(r) == IF r = "r1" THEN 1 ELSE 2

\* the threads (sender phone numbers) the POSTs may name
Threads == {"t1", "t2"}

\* longest thread t1 may hold when the behaviour starts
MaxPrefill == 21

\* number of messages of thread t1 when the behaviour starts: a fresh
\* thread, or a thread around the summary trigger
InitLens == {0} \cup ((TOTAL_MESSAGES_SUMMARY_TRIGGER - 2)..MaxPrefill)

\* texts the summarizer model may answer with
SummaryTexts == {"s1"}


\* VectorStore.SIMILARITY_THRESHOLD (0.9), in hundredths
SIMILARITY_THRESHOLD == 90

\* turns of the thread whose summary is followed
MaxTurns == 10

\* operations on the long-term memory in one behaviour
MaxOps == 4
MaxK == 2

\* formatted facts the importance classifier may produce
Texts == {"a", "b", "x", "y", "c"}

\* cosine similarity of the embeddings of two facts, in hundredths: x lies
\* between a and b (at the threshold from a, above it from b), a and b are
\* apart, y is just below the threshold from a, c is unrelated to all
Sim(u, v) ==
    IF u = v THEN 100
    ELSE LET pr == {u, v}
         IN CASE pr = {"a", "x"} -> 90
              [] pr = {"b", "x"} -> 93
              [] pr = {"a", "b"} -> 70
              [] pr = {"a", "y"} -> 89
              [] pr = {"x", "y"} -> 80
              [] pr = {"b", "y"} -> 60
              [] OTHER -> 10

(***************************************************************************)
(* Names of the graph                                                      *)
(***************************************************************************)
START == "__start__"
END == "__end__"

WorkflowLabels == {"conversation", "image", "audio", "voice_call"}

\* RouterResponse.response_type is declared as str: every string passes the
\* schema.  "video" stands for a string that is none of the four labels.
RouterResponse == WorkflowLabels \cup {"video"}

ResponseNodes == {"conversation_node", "image_node", "audio_node", "voice_calling_node"}

\* nodes whose body has no handler around its external calls
RaisingNodes == {"memory_extraction_node", "router_node", "memory_injection_node",
                 "conversation_node", "image_node", "audio_node",
                 "summarize_conversation_node"}

NoThread == "none"
NoOutput == [mode |-> "none", msg |-> 0]

VARIABLES
    persisted,   \* thread -> channel values of the latest checkpoint
    pc,          \* request -> position of the handler / node about to run
    thread,      \* request -> session_id of the request
    local,       \* request -> channel values of its graph run
    visited,     \* request -> nodes completed in this run, in order
    before,      \* request -> checkpoint loaded when the run started
    afterResp,   \* request -> messages right after the response node
    environ,     \* the required names os.getenv answers in this process
    failure,     \* request -> the call that raised in this run
    output       \* request -> what the handler read back to deliver

\* the long-term memory (modules/memory/long_term)
VARIABLES
    exists,      \* the collection "long_term_memory" has been created
    points,      \* the records of the collection
    clock,       \* operations done so far: source of uuid4() and now()
    lastOp       \* the last operation on the memory and what it was given

storeVars == <<exists, points, clock, lastOp>>

\* one thread served turn after turn, to follow its summary
VARIABLES
    chat,        \* the channel values of the thread
    phase,       \* the step of the turn that comes next
    turns,       \* turns started so far
    covered,     \* the messages the text of chat.summary accounts for
    compactions, \* what every run of the summarizer was given and evicted
    window,      \* the messages the router was given in the turn
    retain       \* settings.TOTAL_MESSAGES_AFTER_SUMMARY as configured

chatVars == <<chat, phase, turns, covered, compactions, window, retain>>

\* two callers writing to the collection at the same time
VARIABLES
    calls,       \* caller -> how far its store_memory call has come
    initial      \* the collection when the two calls began

raceVars == <<calls, initial>>

\* the turns of the threads over the one collection
VARIABLES
    author,      \* id of a record -> thread of the turn that stored it
    turnOf,      \* thread of the turn that made the last operation
    injected     \* memory_context the last memory_injection_node returned

shareVars == <<author, turnOf, injected>>

\* voice_call turns of one thread
VARIABLES
    vstate,      \* the channels of the thread that voice_calling_node reads and writes
    vturn,       \* what the last voice_call turn did and what the handler tracked
    dialled      \* outbound calls placed so far

voiceVars == <<vstate, vturn, dialled>>

\* two turns extracting memories in the one event loop
VARIABLES
    extraction,  \* thread -> how far extract_and_store_memories of its turn has come
    together     \* whether both turns were suspended on the classifier at once

loopVars == <<extraction, together>>

\* the HTTP endpoints and the voice context
VARIABLES
    verify_token,  \* os.getenv("WHATSAPP_VERIFY_TOKEN")
    graph_loaded,  \* whether vapi_endpoints imported the graph
    served         \* the last request and what it was answered

endpointVars == <<verify_token, graph_loaded, served>>

vars == <<persisted, pc, thread, local, visited, before, afterResp, environ, failure,
          output, exists, points, clock, lastOp, chat, phase, turns, covered,
          compactions, window, retain, calls, initial, author, turnOf, injected, vstate, vturn, dialled,
          extraction, together, verify_token, graph_loaded, served>>

(***************************************************************************)
(* Messages and the messages channel                                       *)
(***************************************************************************)
\* uuid4 identifiers: one per message, never reused
MsgId(turn, k) == 100 * turn + k

HumanMessage(id) == [id |-> id, role |-> "human"]
AIMessage(id) == [id |-> id, role |-> "ai"]
RemoveMessage(id) == [id |-> id, role |-> "remove"]

\* a bare string handed to the messages channel is coerced to a human message
CoerceStr(id) == [id |-> id, role |-> "human"]

Ids(msgs) == {msgs[i].id : i \in 1..Len(msgs)}

\* faulty variant: a new message is put in front
AddOneInFront(left, m) ==
    IF m.role = "remove"
    THEN SelectSeq(left, LAMBDA x : x.id # m.id)
    ELSE IF m.id \in Ids(left)
         THEN [i \in 1..Len(left) |-> IF left[i].id = m.id THEN m ELSE left[i]]
         ELSE <<m>> \o left

\* the add_messages reducer for one update
AddOne(left, m) ==
    IF m.role = "remove"
    THEN SelectSeq(left, LAMBDA x : x.id # m.id)
    ELSE IF m.id \in Ids(left)
         THEN [i \in 1..Len(left) |-> IF left[i].id = m.id THEN m ELSE left[i]]
         ELSE Append(left, m)

RECURSIVE AddMessages(_, _)
AddMessages(left, right) ==
    IF right = <<>> THEN left
    ELSE AddMessages(AddOne(left, Head(right)), Tail(right))

\* faulty variant: the slice seq[:k], which deletes the oldest k messages only
DropFirstSlice(seq, k) ==
    IF k >= Len(seq) THEN seq ELSE SubSeq(seq, 1, k)

\* the Python slice seq[:-k]
DropLastSlice(seq, k) ==
    IF k = 0 \/ k >= Len(seq) THEN <<>>
    ELSE SubSeq(seq, 1, Len(seq) - k)

(***************************************************************************)
(* Channel values                                                          *)
(***************************************************************************)
EmptyState == [messages |-> <<>>, summary |-> "", workflow |-> "unset",
               memory_context |-> ""]

\* faulty variant: a field absent from the patch is reset
ApplyPatchWhole(st, patch) ==
    [f \in DOMAIN st |->
        IF f \in DOMAIN patch
        THEN IF f = "messages" THEN AddMessages(st.messages, patch.messages)
             ELSE patch[f]
        ELSE IF f = "messages" THEN st[f] ELSE EmptyState[f]]

\* field-level merge of a node's patch
ApplyPatch(st, patch) ==
    [f \in DOMAIN st |->
        IF f \in DOMAIN patch
        THEN IF f = "messages" THEN AddMessages(st.messages, patch.messages)
             ELSE patch[f]
        ELSE st[f]]

\* faulty variant: messages[:k]
FirstSlice(messages, k) ==
    IF k >= Len(messages) THEN messages ELSE SubSeq(messages, 1, k)

\* messages[-k:]: the last k messages, all of them when there are fewer
\* (and when k is 0)
LastSlice(messages, k) ==
    IF k = 0 \/ k >= Len(messages) THEN messages
    ELSE SubSeq(messages, Len(messages) - k + 1, Len(messages))

\* memory_injection_node's query: the contents of state["messages"][-3:]
recent_context(state) == LastSlice(state.messages, 3)

\* what get_relevant_memories(context) may answer within a turn: nothing,
\* or the facts nearest to the context, best first; the context ends with
\* the message of the turn, so the facts found differ from turn to turn
RelevantMemories(context) ==
    IF context = <<>> THEN {<<>>}
    ELSE {<<>>, IF context[Len(context)].id = MsgId(1, 1) THEN <<"a", "b">> ELSE <<"c">>}

RECURSIVE format_memories_for_prompt(_)

\* MemoryManager.format_memories_for_prompt: "" for no memory, else
\* "\n".join(f"- {memory}" for memory in memories)
format_memories_for_prompt(memories) ==
    IF Len(memories) = 0 THEN ""
    ELSE IF Len(memories) = 1 THEN "- " \o memories[1]
    ELSE "- " \o memories[1] \o "\n" \o format_memories_for_prompt(Tail(memories))

\* a thread of n messages whose last turn completed; a thread of odd length
\* has been compacted before; its memory_context is that of its last turn
Prefill(n) ==
    [EmptyState EXCEPT
        !.messages = [i \in 1..n |->
                         IF (n - i) % 2 = 0 THEN AIMessage(i) ELSE HumanMessage(i)],
        !.summary = IF n % 2 = 1 THEN "s0" ELSE "",
        !.workflow = IF n = 0 THEN "unset" ELSE "conversation",
        !.memory_context = IF n = 0 THEN "" ELSE format_memories_for_prompt(<<"y">>)]

(***************************************************************************)
(* Edges                                                                   *)
(***************************************************************************)
\* faulty variant: the comparison written as >=
should_summarize_at_trigger(state) ==
    IF Len(state.messages) >= TOTAL_MESSAGES_SUMMARY_TRIGGER
    THEN "summarize_conversation_node"
    ELSE END

\* faulty variant: the edge never selects the summarizer
should_summarize_never(state) ==
    IF Len(state.messages) > TOTAL_MESSAGES_SUMMARY_TRIGGER
    THEN END
    ELSE END

should_summarize_conversation(state) ==
    IF Len(state.messages) > TOTAL_MESSAGES_SUMMARY_TRIGGER
    THEN "summarize_conversation_node"
    ELSE END

\* faulty variant: the audio branch is missing
select_workflow_no_audio(state) ==
    IF state.workflow = "image" THEN "image_node"
    ELSE IF state.workflow = "voice_call" THEN "voice_calling_node"
    ELSE "conversation_node"

select_workflow(state) ==
    IF state.workflow = "image" THEN "image_node"
    ELSE IF state.workflow = "audio" THEN "audio_node"
    ELSE IF state.workflow = "voice_call" THEN "voice_calling_node"
    ELSE "conversation_node"

\* faulty variant: router_node wired straight to memory_injection_node
FixedEdgeSkipContext(node) ==
    CASE node = START -> "memory_extraction_node"
      [] node = "memory_extraction_node" -> "router_node"
      [] node = "router_node" -> "memory_injection_node"
      [] node = "context_injection_node" -> "memory_injection_node"
      [] node = "voice_calling_node" -> END
      [] node = "summarize_conversation_node" -> END

\* faulty variant: voice_calling_node wired to the summarizer
FixedEdgeVoiceSummarize(node) ==
    CASE node = START -> "memory_extraction_node"
      [] node = "memory_extraction_node" -> "router_node"
      [] node = "router_node" -> "context_injection_node"
      [] node = "context_injection_node" -> "memory_injection_node"
      [] node = "voice_calling_node" -> "summarize_conversation_node"
      [] node = "summarize_conversation_node" -> END

\* faulty variant: the summarizer leads back to the entry node
FixedEdgeCycle(node) ==
    CASE node = START -> "memory_extraction_node"
      [] node = "memory_extraction_node" -> "router_node"
      [] node = "router_node" -> "context_injection_node"
      [] node = "context_injection_node" -> "memory_injection_node"
      [] node = "voice_calling_node" -> END
      [] node = "summarize_conversation_node" -> "memory_extraction_node"

\* add_edge
FixedEdge(node) ==
    CASE node = START -> "memory_extraction_node"
      [] node = "memory_extraction_node" -> "router_node"
      [] node = "router_node" -> "context_injection_node"
      [] node = "context_injection_node" -> "memory_injection_node"
      [] node = "voice_calling_node" -> END
      [] node = "summarize_conversation_node" -> END

\* add_conditional_edges and add_edge together
NextNode(node, state) ==
    IF node = "memory_injection_node" THEN select_workflow(state)
    ELSE IF node \in {"conversation_node", "image_node", "audio_node"}
         THEN should_summarize_conversation(state)
         ELSE FixedEdge(node)

(***************************************************************************)
(* The long-term memory: VectorStore and MemoryManager                     *)
(***************************************************************************)
\* find_similar_memory returning None
NoMemory == [id |-> 0, text |-> "", timestamp |-> 0]

NoOp == [op |-> "none", type |-> "", analyzed |-> FALSE, is_important |-> FALSE,
         text |-> "", similar |-> NoMemory, existed |-> FALSE, before |-> {},
         prev |-> "", k |-> 0, hits |-> <<>>, result |-> <<>>]

\* the operation o was given a fact to store: store_memory, or
\* extract_and_store_memories with an important fact of a human message
StoresText(o) ==
    \/ o.op = "store_memory"
    \/ o.op = "extract_and_store_memories" /\ o.type = "human"
           /\ o.is_important /\ o.text # ""

\* the fact the previous operation was given to store ("" when none)
PrevText == IF StoresText(lastOp) THEN lastOp.text ELSE ""

\* search_memories(text, k=1): nothing when the collection is absent or
\* empty, else a record of highest score
search_memories(text) ==
    IF ~exists THEN {}
    ELSE {p \in points : \A q \in points : Sim(q.text, text) <= Sim(p.text, text)}

\* the answers search_memories(query, k) may give: client.search with
\* limit=k answers the k points of highest score, highest first (as many as
\* there are when fewer), in any order among equal scores; nothing when the
\* collection is absent
search_memories_k(query, k) ==
    IF ~exists THEN {<<>>}
    ELSE LET n == IF Cardinality(points) < k THEN Cardinality(points) ELSE k
         IN {s \in [1..n -> points] :
                /\ \A i, j \in 1..n : i < j =>
                       /\ s[i] # s[j]
                       /\ Sim(s[i].text, query) >= Sim(s[j].text, query)
                /\ \A p \in points : (\A i \in 1..n : s[i] # p) =>
                       \A i \in 1..n : Sim(p.text, query) <= Sim(s[i].text, query)}

\* the values find_similar_memory(text) may return
find_similar_memory(text) ==
    IF search_memories(text) = {} THEN {NoMemory}
    ELSE {IF Sim(p.text, text) >= SIMILARITY_THRESHOLD THEN p ELSE NoMemory :
              p \in search_memories(text)}

\* metadata = {"id": str(uuid.uuid4()), "timestamp": datetime.now()}
NewMetadata == [id |-> clock + 1, timestamp |-> clock + 1]

\* faulty variant: the point always takes the id of the metadata
upsert_fresh(text, metadata, similar) ==
    {p \in points : p.id # metadata.id} \cup
        {[id |-> metadata.id, text |-> text, timestamp |-> metadata.timestamp]}

\* the collection after store_memory's client.upsert: the point takes the id
\* of the similar memory when there is one, and replaces the point of that id
upsert(text, metadata, similar) ==
    LET id == IF similar # NoMemory THEN similar.id ELSE metadata.id
    IN {p \in points : p.id # id} \cup
           {[id |-> id, text |-> text, timestamp |-> metadata.timestamp]}

StoreEmpty ==
    /\ exists = FALSE
    /\ points = {}
    /\ clock = 0
    /\ lastOp = NoOp

(***************************************************************************)
(* The summary of a thread                                                 *)
(***************************************************************************)
\* stands for the conversation a summary present at the start accounts for
Earlier == 0

\* what the text of the summary of a thread of n messages accounts for
PrefillCovered(n) == IF Prefill(n).summary # "" THEN {Earlier} ELSE {}

ChatIdle ==
    /\ chat = EmptyState
    /\ phase = "inbound"
    /\ turns = 0
    /\ covered = {}
    /\ compactions = <<>>
    /\ window = <<>>
    /\ retain = TOTAL_MESSAGES_AFTER_SUMMARY

(***************************************************************************)
(* Two processes that write to the same collection                         *)
(***************************************************************************)
\* the interfaces are separate applications over one Qdrant collection
Callers == {"p1", "p2"}

NoCall == [pc |-> "idle", text |-> "", metadata |-> [id |-> 0, timestamp |-> 0],
           similar |-> NoMemory]

NoStore == [exists |-> FALSE, points |-> {}]

RaceIdle ==
    /\ calls = [c \in Callers |-> NoCall]
    /\ initial = NoStore

(***************************************************************************)
(* voice_calling_node                                                      *)
(***************************************************************************)
MaxVoiceTurns == 6

\* active_call: Dict = {}, call_initiated_at: str = "", voice_context_used: Dict = {}
NoCallDetails == [call_id |-> 0, timestamp |-> 0]
NoVoiceContext == [messageCount |-> -1]

NoVoiceTurn == [branch |-> "none", patch |-> [none |-> 0], returned |-> TRUE,
                placed |-> FALSE, tracked |-> NoCallDetails]

\* a thread no voice_call turn has run on
VoiceStart == [messages |-> <<>>, user_phone_number |-> "",
               active_call |-> NoCallDetails, call_initiated_at |-> 0,
               voice_context_used |-> NoVoiceContext]

\* a value that may be absent: None, or the value
None == <<>>
Some(v) == <<v>>

\* extract_and_store_memories of a turn: not entered
NoExtraction == [pc |-> "idle", message |-> "", is_important |-> FALSE,
                 formatted_memory |-> ""]

LoopIdle ==
    /\ extraction = [t \in Threads |-> NoExtraction]
    /\ together = FALSE

\* no request served yet
NoExchange == [endpoint |-> "none"]

EndpointIdle ==
    /\ verify_token = Some("secret")
    /\ graph_loaded = TRUE
    /\ served = NoExchange

VoiceIdle ==
    /\ vstate = VoiceStart
    /\ vturn = NoVoiceTurn
    /\ dialled = 0

\* faulty variant: the inner try is missing, a raising call leaves the node
voice_calling_unguarded(state, context_prepared, client_available, call_ok) ==
    LET one(kind) == [branch |-> kind,
                      patch |-> [messages |-> <<AIMessage(MsgId(Len(state.messages), 2))>>],
                      returned |-> TRUE, placed |-> FALSE]
    IN IF state.user_phone_number = "" THEN one("no_phone")
       ELSE IF ~context_prepared THEN one("node_error")
       ELSE IF ~client_available THEN one("no_client")
       ELSE IF ~call_ok
       THEN [branch |-> "call_raised", patch |-> [none |-> 0],
             returned |-> FALSE, placed |-> FALSE]
       ELSE [branch |-> "initiated",
             patch |-> [messages |-> <<AIMessage(MsgId(Len(state.messages), 2))>>,
                        active_call |-> [call_id |-> dialled + 1, timestamp |-> dialled + 1],
                        call_initiated_at |-> dialled + 1,
                        voice_context_used |-> [messageCount |-> Len(state.messages)]],
             returned |-> TRUE, placed |-> TRUE]

\* voice_calling_node(state): the branch taken, the patch returned and
\* whether calls.create placed a call. context_prepared: prepare_voice_context_simple
\* returned; client_available: vapi_client is not None; call_ok:
\* make_outbound_call returned call details
voice_calling(state, context_prepared, client_available, call_ok) ==
    LET one(kind) == [branch |-> kind,
                      patch |-> [messages |-> <<AIMessage(MsgId(Len(state.messages), 2))>>],
                      returned |-> TRUE, placed |-> FALSE]
    IN IF state.user_phone_number = "" THEN one("no_phone")
       ELSE IF ~context_prepared THEN one("node_error")
       ELSE IF ~client_available THEN one("no_client")
       ELSE IF ~call_ok THEN one("call_raised")
       ELSE [branch |-> "initiated",
             patch |-> [messages |-> <<AIMessage(MsgId(Len(state.messages), 2))>>,
                        active_call |-> [call_id |-> dialled + 1, timestamp |-> dialled + 1],
                        call_initiated_at |-> dialled + 1,
                        voice_context_used |-> [messageCount |-> Len(state.messages)]],
             returned |-> TRUE, placed |-> TRUE]

\* no turn has used the memory
ShareIdle ==
    /\ author = <<>>
    /\ turnOf = NoThread
    /\ injected = ""

(***************************************************************************)
(* Configuration of the process                                            *)
(***************************************************************************)
\* VectorStore.REQUIRED_ENV_VARS
REQUIRED_ENV_VARS == {"QDRANT_URL", "QDRANT_API_KEY"}

\* VectorStore._validate_env_vars: the names os.getenv answers nothing for
missing_vars == {var \in REQUIRED_ENV_VARS : var \notin environ}

(***************************************************************************)
(* Initial state                                                           *)
(***************************************************************************)
Init ==
    /\ \E n \in InitLens :
          persisted = [t \in Threads |-> IF t = "t1" THEN Prefill(n) ELSE EmptyState]
    /\ pc = [r \in Reqs |-> "idle"]
    /\ thread = [r \in Reqs |-> NoThread]
    /\ local = [r \in Reqs |-> EmptyState]
    /\ visited = [r \in Reqs |-> <<>>]
    /\ before = [r \in Reqs |-> EmptyState]
    /\ afterResp = [r \in Reqs |-> <<>>]
    /\ environ \in SUBSET REQUIRED_ENV_VARS
    /\ failure = [r \in Reqs |-> "none"]
    /\ output = [r \in Reqs |-> NoOutput]
    /\ StoreEmpty
    /\ ChatIdle
    /\ RaceIdle
    /\ ShareIdle /\ VoiceIdle /\ LoopIdle /\ EndpointIdle

(***************************************************************************)
(* The webhook handler around the graph                                    *)
(***************************************************************************)
\* POST received: session_id = from_number; the handler then awaits the body
\* and the media before it reaches graph.ainvoke
Receive(r, t) ==
    /\ pc[r] = "idle"
    /\ \A q \in Reqs : TurnNo(q) < TurnNo(r) => pc[q] # "idle"
    /\ thread' = [thread EXCEPT ![r] = t]
    /\ pc' = [pc EXCEPT ![r] = "received"]
    /\ UNCHANGED storeVars /\ UNCHANGED chatVars /\ UNCHANGED raceVars /\ UNCHANGED shareVars /\ UNCHANGED voiceVars /\ UNCHANGED loopVars /\ UNCHANGED endpointVars /\ UNCHANGED <<environ, persisted, local, visited, before, afterResp, failure, output>>

\* graph.ainvoke(graph_input, graph_config): load the thread's checkpoint,
\* merge the input, save, and schedule the entry node
InvokeStart(r) ==
    /\ pc[r] = "received"
    /\ LET loaded == persisted[thread[r]]
           graph_input == [messages |-> <<HumanMessage(MsgId(TurnNo(r), 1))>>]
           st == ApplyPatch(loaded, graph_input)
       IN /\ before' = [before EXCEPT ![r] = loaded]
          /\ local' = [local EXCEPT ![r] = st]
          /\ persisted' = [persisted EXCEPT ![thread[r]] = st]
    /\ pc' = [pc EXCEPT ![r] = FixedEdge(START)]
    /\ UNCHANGED storeVars /\ UNCHANGED chatVars /\ UNCHANGED raceVars /\ UNCHANGED shareVars /\ UNCHANGED voiceVars /\ UNCHANGED loopVars /\ UNCHANGED endpointVars /\ UNCHANGED <<environ, thread, visited, afterResp, failure, output>>

\* faulty variant: the checkpoint is written without the thread key
StepShared(r, node, patch) ==
    LET st == ApplyPatch(local[r], patch)
    IN /\ local' = [local EXCEPT ![r] = st]
       /\ persisted' = [t \in Threads |-> st]
       /\ visited' = [visited EXCEPT ![r] = Append(@, node)]
       /\ pc' = [pc EXCEPT ![r] = NextNode(node, st)]
       /\ afterResp' = [afterResp EXCEPT ![r] =
              IF node \in ResponseNodes THEN st.messages ELSE @]

\* one superstep: the node's patch is merged, the checkpoint is written and
\* the outgoing edge is evaluated on the merged state
Step(r, node, patch) ==
    LET st == ApplyPatch(local[r], patch)
    IN /\ local' = [local EXCEPT ![r] = st]
       /\ persisted' = [persisted EXCEPT ![thread[r]] = st]
       /\ visited' = [visited EXCEPT ![r] = Append(@, node)]
       /\ pc' = [pc EXCEPT ![r] = NextNode(node, st)]
       /\ afterResp' = [afterResp EXCEPT ![r] =
              IF node \in ResponseNodes THEN st.messages ELSE @]

(***************************************************************************)
(* Nodes                                                                   *)
(***************************************************************************)
\* writes to the vector store only; returns {} in both branches; the
\* VectorStore is built by the first get_memory_manager() of the process
memory_extraction_node(r) ==
    /\ pc[r] = "memory_extraction_node"
    /\ missing_vars = {}
    /\ Step(r, "memory_extraction_node", [none |-> 0])
    /\ UNCHANGED storeVars /\ UNCHANGED chatVars /\ UNCHANGED raceVars /\ UNCHANGED shareVars /\ UNCHANGED voiceVars /\ UNCHANGED loopVars /\ UNCHANGED endpointVars /\ UNCHANGED <<environ, thread, before, failure, output>>

\* the structured-output call answered with a RouterResponse
router_node(r) ==
    /\ pc[r] = "router_node"
    /\ \E response_type \in RouterResponse :
          Step(r, "router_node", [workflow |-> response_type])
    /\ UNCHANGED storeVars /\ UNCHANGED chatVars /\ UNCHANGED raceVars /\ UNCHANGED shareVars /\ UNCHANGED voiceVars /\ UNCHANGED loopVars /\ UNCHANGED endpointVars /\ UNCHANGED <<environ, thread, before, failure, output>>

\* writes apply_activity and current_activity only
context_injection_node(r) ==
    /\ pc[r] = "context_injection_node"
    /\ Step(r, "context_injection_node", [none |-> 0])
    /\ UNCHANGED storeVars /\ UNCHANGED chatVars /\ UNCHANGED raceVars /\ UNCHANGED shareVars /\ UNCHANGED voiceVars /\ UNCHANGED loopVars /\ UNCHANGED endpointVars /\ UNCHANGED <<environ, thread, before, failure, output>>

\* faulty variant: memory_context is written only when something is found
memory_injection_node_when_found(r) ==
    /\ pc[r] = "memory_injection_node"
    /\ \E memories \in RelevantMemories(recent_context(local[r])) :
          LET memory_context == format_memories_for_prompt(memories)
          IN Step(r, "memory_injection_node",
                  IF memories = <<>> THEN [none |-> 0]
                  ELSE [memory_context |-> memory_context])
    /\ UNCHANGED storeVars /\ UNCHANGED chatVars /\ UNCHANGED raceVars /\ UNCHANGED shareVars /\ UNCHANGED voiceVars /\ UNCHANGED loopVars /\ UNCHANGED endpointVars /\ UNCHANGED <<environ, thread, before, failure, output>>

memory_injection_node(r) ==
    /\ pc[r] = "memory_injection_node"
    /\ \E memories \in RelevantMemories(recent_context(local[r])) :
          LET memory_context == format_memories_for_prompt(memories)
          IN Step(r, "memory_injection_node", [memory_context |-> memory_context])
    /\ UNCHANGED storeVars /\ UNCHANGED chatVars /\ UNCHANGED raceVars /\ UNCHANGED shareVars /\ UNCHANGED voiceVars /\ UNCHANGED loopVars /\ UNCHANGED endpointVars /\ UNCHANGED <<environ, thread, before, failure, output>>

conversation_node(r) ==
    /\ pc[r] = "conversation_node"
    /\ Step(r, "conversation_node",
            [messages |-> <<AIMessage(MsgId(TurnNo(r), 2))>>])
    /\ UNCHANGED storeVars /\ UNCHANGED chatVars /\ UNCHANGED raceVars /\ UNCHANGED shareVars /\ UNCHANGED voiceVars /\ UNCHANGED loopVars /\ UNCHANGED endpointVars /\ UNCHANGED <<environ, thread, before, failure, output>>

image_node(r) ==
    /\ pc[r] = "image_node"
    /\ Step(r, "image_node",
            [messages |-> <<AIMessage(MsgId(TurnNo(r), 2))>>])
    /\ UNCHANGED storeVars /\ UNCHANGED chatVars /\ UNCHANGED raceVars /\ UNCHANGED shareVars /\ UNCHANGED voiceVars /\ UNCHANGED loopVars /\ UNCHANGED endpointVars /\ UNCHANGED <<environ, thread, before, failure, output>>

\* returns the chain's string itself under "messages"
audio_node(r) ==
    /\ pc[r] = "audio_node"
    /\ Step(r, "audio_node",
            [messages |-> <<CoerceStr(MsgId(TurnNo(r), 2))>>])
    /\ UNCHANGED storeVars /\ UNCHANGED chatVars /\ UNCHANGED raceVars /\ UNCHANGED shareVars /\ UNCHANGED voiceVars /\ UNCHANGED loopVars /\ UNCHANGED endpointVars /\ UNCHANGED <<environ, thread, before, failure, output>>

\* every branch, the exception handlers included, returns one AIMessage
voice_calling_node(r) ==
    /\ pc[r] = "voice_calling_node"
    /\ Step(r, "voice_calling_node",
            [messages |-> <<AIMessage(MsgId(TurnNo(r), 2))>>])
    /\ UNCHANGED storeVars /\ UNCHANGED chatVars /\ UNCHANGED raceVars /\ UNCHANGED shareVars /\ UNCHANGED voiceVars /\ UNCHANGED loopVars /\ UNCHANGED endpointVars /\ UNCHANGED <<environ, thread, before, failure, output>>

summarize_conversation_node(r) ==
    /\ pc[r] = "summarize_conversation_node"
    /\ \E content \in SummaryTexts :
          LET evicted == DropLastSlice(local[r].messages, TOTAL_MESSAGES_AFTER_SUMMARY)
              delete_messages == [i \in 1..Len(evicted) |-> RemoveMessage(evicted[i].id)]
          IN Step(r, "summarize_conversation_node",
                  [summary |-> content, messages |-> delete_messages])
    /\ UNCHANGED storeVars /\ UNCHANGED chatVars /\ UNCHANGED raceVars /\ UNCHANGED shareVars /\ UNCHANGED voiceVars /\ UNCHANGED loopVars /\ UNCHANGED endpointVars /\ UNCHANGED <<environ, thread, before, failure, output>>

\* an external call of the node raises (for the router: the structured
\* output fails validation, or the request still fails after max_retries;
\* for memory_extraction_node: VectorStore() when a required name is
\* missing, else the importance classifier, or the vector store when the
\* fact is looked up and written; for memory_injection_node:
\* the vector store search; for summarize_conversation_node: the summarizer
\* model); the node returns no patch and ainvoke raises into the handler
NodeRaises(r) ==
    /\ pc[r] \in RaisingNodes
    /\ \E cause \in (IF pc[r] = "router_node"
                     THEN {"router_validation", "router_request"}
                     ELSE IF pc[r] = "memory_extraction_node"
                     THEN (IF missing_vars # {} THEN {"configuration"}
                           ELSE {"memory_classifier", "memory_store"})
                     ELSE {pc[r]}) :
          failure' = [failure EXCEPT ![r] = cause]
    /\ pc' = [pc EXCEPT ![r] = "failed"]
    /\ UNCHANGED storeVars /\ UNCHANGED chatVars /\ UNCHANGED raceVars /\ UNCHANGED shareVars /\ UNCHANGED voiceVars /\ UNCHANGED loopVars /\ UNCHANGED endpointVars /\ UNCHANGED <<environ, persisted, thread, local, visited, before, afterResp, output>>

(***************************************************************************)
(* After the run                                                           *)
(***************************************************************************)
\* graph.aget_state: the latest checkpoint of the thread, from which the
\* handler takes the workflow and the last message
GetState(r) ==
    /\ pc[r] = END
    /\ LET values == persisted[thread[r]]
           workflow == IF values.workflow = "unset" THEN "conversation"
                       ELSE values.workflow
           mode == IF workflow \in {"audio", "image", "voice_call"}
                   THEN workflow ELSE "text"
       IN output' = [output EXCEPT ![r] =
              [mode |-> mode, msg |-> values.messages[Len(values.messages)].id]]
    /\ pc' = [pc EXCEPT ![r] = "respond"]
    /\ UNCHANGED storeVars /\ UNCHANGED chatVars /\ UNCHANGED raceVars /\ UNCHANGED shareVars /\ UNCHANGED voiceVars /\ UNCHANGED loopVars /\ UNCHANGED endpointVars /\ UNCHANGED <<environ, persisted, thread, local, visited, before, afterResp, failure>>

\* the handler returns with a status: the values of the run go out of scope
Release(r, status) ==
    /\ pc' = [pc EXCEPT ![r] = status]
    /\ local' = [local EXCEPT ![r] = EmptyState]
    /\ visited' = [visited EXCEPT ![r] = <<>>]
    /\ before' = [before EXCEPT ![r] = EmptyState]
    /\ afterResp' = [afterResp EXCEPT ![r] = <<>>]
    /\ failure' = [failure EXCEPT ![r] = "none"]
    /\ output' = [output EXCEPT ![r] = NoOutput]

\* send_response, then "Message processed", 200 or "Failed to send message",
\* 500 as the send succeeded or not
Respond(r) ==
    /\ pc[r] = "respond"
    /\ \E success \in BOOLEAN :
          Release(r, IF success THEN "returned_200" ELSE "returned_500")
    /\ UNCHANGED storeVars /\ UNCHANGED chatVars /\ UNCHANGED raceVars /\ UNCHANGED shareVars /\ UNCHANGED voiceVars /\ UNCHANGED loopVars /\ UNCHANGED endpointVars /\ UNCHANGED <<environ, persisted, thread>>

\* except Exception: Response("Internal server error", status_code=500)
ReturnError(r) ==
    /\ pc[r] = "failed"
    /\ Release(r, "returned_500")
    /\ UNCHANGED storeVars /\ UNCHANGED chatVars /\ UNCHANGED raceVars /\ UNCHANGED shareVars /\ UNCHANGED voiceVars /\ UNCHANGED loopVars /\ UNCHANGED endpointVars /\ UNCHANGED <<environ, persisted, thread>>

Next ==
    \/ \E r \in Reqs, t \in Threads : Receive(r, t)
    \/ \E r \in Reqs : InvokeStart(r)
    \/ \E r \in Reqs : memory_extraction_node(r)
    \/ \E r \in Reqs : router_node(r)
    \/ \E r \in Reqs : context_injection_node(r)
    \/ \E r \in Reqs : memory_injection_node(r)
    \/ \E r \in Reqs : conversation_node(r)
    \/ \E r \in Reqs : image_node(r)
    \/ \E r \in Reqs : audio_node(r)
    \/ \E r \in Reqs : voice_calling_node(r)
    \/ \E r \in Reqs : summarize_conversation_node(r)
    \/ \E r \in Reqs : NodeRaises(r)
    \/ \E r \in Reqs : GetState(r)
    \/ \E r \in Reqs : Respond(r)
    \/ \E r \in Reqs : ReturnError(r)

Spec == Init /\ [][Next]_vars

TypeOK ==
    /\ \A r \in Reqs : thread[r] \in Threads \cup {NoThread}
    /\ \A t \in Threads : persisted[t].workflow \in RouterResponse \cup {"unset"}

(***************************************************************************)
(* Runs in which every node call returns                                   *)
(***************************************************************************)
\* one superstep of the run of r: the event loop runs the node that is due
RunStep(r) ==
    \/ InvokeStart(r)
    \/ memory_extraction_node(r)
    \/ router_node(r)
    \/ context_injection_node(r)
    \/ memory_injection_node(r)
    \/ conversation_node(r)
    \/ image_node(r)
    \/ audio_node(r)
    \/ voice_calling_node(r)
    \/ summarize_conversation_node(r)

ReturningInit == Init /\ missing_vars = {}

\* turns served one after the other
ReturningNext ==
    \/ \E r \in Reqs, t \in Threads :
          /\ \A q \in Reqs \ {r} : pc[q] \in {"idle", "returned_200", "returned_500"}
          /\ Receive(r, t)
    \/ \E r \in Reqs : RunStep(r)
    \/ \E r \in Reqs : GetState(r)
    \/ \E r \in Reqs : Respond(r)

ReturningSpec ==
    ReturningInit /\ [][ReturningNext]_vars /\ \A r \in Reqs : WF_vars(RunStep(r))

(***************************************************************************)
(* Operations on the long-term memory                                      *)
(***************************************************************************)
graphVars == <<persisted, pc, thread, local, visited, before, afterResp, environ, failure, output>>

\* faulty variant: the collection is not created when absent
store_memory_without_create(text) ==
    /\ clock < MaxOps
    /\ clock' = clock + 1
    /\ UNCHANGED exists
    /\ \E similar \in find_similar_memory(text) :
          /\ points' = IF exists THEN upsert(text, NewMetadata, similar) ELSE points
          /\ lastOp' = [op |-> "store_memory", type |-> "", analyzed |-> FALSE,
                        is_important |-> FALSE, text |-> text,
                        similar |-> similar, existed |-> exists, before |-> points,
                        prev |-> PrevText, k |-> 0, hits |-> <<>>, result |-> <<>>]
    /\ UNCHANGED graphVars /\ UNCHANGED chatVars /\ UNCHANGED raceVars

\* VectorStore.store_memory(text, metadata)
store_memory(text) ==
    /\ clock < MaxOps
    /\ clock' = clock + 1
    /\ exists' = TRUE
    /\ \E similar \in find_similar_memory(text) :
          /\ points' = upsert(text, NewMetadata, similar)
          /\ lastOp' = [op |-> "store_memory", type |-> "", analyzed |-> FALSE,
                        is_important |-> FALSE, text |-> text,
                        similar |-> similar, existed |-> exists, before |-> points,
                        prev |-> PrevText, k |-> 0, hits |-> <<>>, result |-> <<>>]
    /\ UNCHANGED graphVars /\ UNCHANGED chatVars /\ UNCHANGED raceVars

\* faulty variant: the classifier's verdict is not consulted
extract_and_store_always(type, is_important, formatted_memory) ==
    /\ clock < MaxOps
    /\ clock' = clock + 1
    /\ \E similar \in find_similar_memory(formatted_memory) :
          /\ lastOp' = [op |-> "extract_and_store_memories", type |-> type,
                        analyzed |-> TRUE, is_important |-> is_important,
                        text |-> formatted_memory,
                        similar |-> similar, existed |-> exists, before |-> points,
                        prev |-> PrevText, k |-> 0, hits |-> <<>>, result |-> <<>>]
          /\ exists' = TRUE
          /\ points' = upsert(formatted_memory, NewMetadata, similar)
    /\ UNCHANGED graphVars /\ UNCHANGED chatVars /\ UNCHANGED raceVars

\* MemoryManager.extract_and_store_memories(message) for a message of the
\* given type; is_important and formatted_memory ("" for none) are the
\* classifier's answer, asked for human messages only
extract_and_store_memories(type, is_important, formatted_memory) ==
    /\ clock < MaxOps
    /\ clock' = clock + 1
    /\ IF type # "human"
       THEN /\ lastOp' = [NoOp EXCEPT !.op = "extract_and_store_memories",
                                      !.type = type, !.before = points,
                                      !.existed = exists,
                                      !.prev = PrevText]
            /\ UNCHANGED <<exists, points>>
       ELSE IF is_important /\ formatted_memory # ""
       THEN \E similar \in find_similar_memory(formatted_memory) :
               /\ lastOp' = [op |-> "extract_and_store_memories", type |-> type,
                             analyzed |-> TRUE, is_important |-> is_important,
                             text |-> formatted_memory,
                             similar |-> similar, existed |-> exists, before |-> points,
                        prev |-> PrevText, k |-> 0, hits |-> <<>>, result |-> <<>>]
               /\ IF similar # NoMemory
                  THEN UNCHANGED <<exists, points>>
                  ELSE /\ exists' = TRUE
                       /\ points' = upsert(formatted_memory, NewMetadata, NoMemory)
       ELSE /\ lastOp' = [op |-> "extract_and_store_memories", type |-> type,
                          analyzed |-> TRUE, is_important |-> is_important,
                          text |-> formatted_memory,
                          similar |-> NoMemory, existed |-> exists, before |-> points,
                        prev |-> PrevText, k |-> 0, hits |-> <<>>, result |-> <<>>]
            /\ UNCHANGED <<exists, points>>
    /\ UNCHANGED graphVars /\ UNCHANGED chatVars /\ UNCHANGED raceVars

\* VectorStore.search_memories(query, k) called directly
SearchMemories(query, k) ==
    /\ \E hits \in search_memories_k(query, k) :
          lastOp' = [NoOp EXCEPT !.op = "search_memories", !.text = query,
                                 !.existed = exists, !.before = points,
                                 !.k = k, !.hits = hits]
    /\ UNCHANGED <<exists, points, clock>>
    /\ UNCHANGED graphVars /\ UNCHANGED chatVars /\ UNCHANGED raceVars

\* faulty variant: the search is made with its default k of 5
get_relevant_memories_default_k(context) ==
    /\ \E memories \in search_memories_k(context, 5) :
          lastOp' = [NoOp EXCEPT !.op = "get_relevant_memories", !.text = context,
                                 !.existed = exists, !.before = points,
                                 !.k = 5,
                                 !.hits = memories,
                                 !.result = [i \in 1..Len(memories) |-> memories[i].text]]
    /\ UNCHANGED <<exists, points, clock>>
    /\ UNCHANGED graphVars /\ UNCHANGED chatVars /\ UNCHANGED raceVars

\* MemoryManager.get_relevant_memories(context): the texts of
\* search_memories(context, k=MEMORY_TOP_K), in the order of the search
get_relevant_memories(context) ==
    /\ \E memories \in search_memories_k(context, MEMORY_TOP_K) :
          lastOp' = [NoOp EXCEPT !.op = "get_relevant_memories", !.text = context,
                                 !.existed = exists, !.before = points,
                                 !.k = MEMORY_TOP_K,
                                 !.hits = memories,
                                 !.result = [i \in 1..Len(memories) |-> memories[i].text]]
    /\ UNCHANGED <<exists, points, clock>>
    /\ UNCHANGED graphVars /\ UNCHANGED chatVars /\ UNCHANGED raceVars

\* no request is being served
GraphIdle ==
    /\ persisted = [t \in Threads |-> EmptyState]
    /\ pc = [r \in Reqs |-> "idle"]
    /\ thread = [r \in Reqs |-> NoThread]
    /\ local = [r \in Reqs |-> EmptyState]
    /\ visited = [r \in Reqs |-> <<>>]
    /\ before = [r \in Reqs |-> EmptyState]
    /\ afterResp = [r \in Reqs |-> <<>>]
    /\ environ = REQUIRED_ENV_VARS
    /\ failure = [r \in Reqs |-> "none"]
    /\ output = [r \in Reqs |-> NoOutput]

StoreInit == GraphIdle /\ StoreEmpty /\ ChatIdle /\ RaceIdle /\ ShareIdle /\ VoiceIdle /\ LoopIdle /\ EndpointIdle

\* the queries of the direct searches
Queries == {"a", "x"}

StoreNext ==
    \/ \E text \in Texts : store_memory(text) /\ UNCHANGED shareVars /\ UNCHANGED voiceVars /\ UNCHANGED loopVars /\ UNCHANGED endpointVars
    \/ \E type \in {"human", "ai"}, is_important \in BOOLEAN,
          formatted_memory \in Texts \cup {""} :
          extract_and_store_memories(type, is_important, formatted_memory)
              /\ UNCHANGED shareVars /\ UNCHANGED voiceVars /\ UNCHANGED loopVars /\ UNCHANGED endpointVars
    \/ \E query \in Queries, k \in 1..MaxK : SearchMemories(query, k) /\ UNCHANGED shareVars /\ UNCHANGED voiceVars /\ UNCHANGED loopVars /\ UNCHANGED endpointVars
    \/ \E context \in Texts : get_relevant_memories(context) /\ UNCHANGED shareVars /\ UNCHANGED voiceVars /\ UNCHANGED loopVars /\ UNCHANGED endpointVars

StoreSpec == StoreInit /\ [][StoreNext]_vars

(***************************************************************************)
(* The memory nodes of the turns of two threads                            *)
(***************************************************************************)
\* memory_extraction_node in a turn of thread t: the last message of the
\* state, a human message, goes to extract_and_store_memories; neither the
\* call nor the record written carries the thread
TurnExtracts(t, is_important, formatted_memory) ==
    /\ extract_and_store_memories("human", is_important, formatted_memory)
    /\ turnOf' = t
    /\ author' = IF points' # points
                 THEN [id \in DOMAIN author \cup {NewMetadata.id} |->
                          IF id = NewMetadata.id THEN t ELSE author[id]]
                 ELSE author
    /\ UNCHANGED injected
    /\ UNCHANGED voiceVars /\ UNCHANGED loopVars /\ UNCHANGED endpointVars

\* faulty variant: only the facts stored by the thread of the turn are kept
TurnInjectsOwn(t, context) ==
    /\ \E memories \in search_memories_k(context, MEMORY_TOP_K) :
          LET Own(p) == author[p.id] = t
              own == SelectSeq(memories, Own)
              result == [i \in 1..Len(own) |-> own[i].text]
          IN /\ lastOp' = [NoOp EXCEPT !.op = "get_relevant_memories",
                                       !.text = context, !.existed = exists,
                                       !.before = points,
                                       !.k = MEMORY_TOP_K, !.hits = own,
                                       !.result = result]
             /\ injected' = format_memories_for_prompt(result)
    /\ turnOf' = t
    /\ UNCHANGED <<exists, points, clock, author>>
    /\ UNCHANGED graphVars /\ UNCHANGED chatVars /\ UNCHANGED raceVars
    /\ UNCHANGED voiceVars /\ UNCHANGED loopVars /\ UNCHANGED endpointVars

\* memory_injection_node in a turn of thread t: get_relevant_memories of the
\* recent context, formatted; the search is given no thread
TurnInjects(t, context) ==
    /\ get_relevant_memories(context)
    /\ injected' = format_memories_for_prompt(lastOp'.result)
    /\ turnOf' = t
    /\ UNCHANGED author
    /\ UNCHANGED voiceVars /\ UNCHANGED loopVars /\ UNCHANGED endpointVars

SharedInit == StoreInit

\* the facts the classifier words in these turns, pairwise dissimilar, and
\* the contexts searched for
SharedFacts == {"a", "b", "y", "c"}
SharedContexts == {"a", "x"}

SharedNext ==
    \/ \E t \in Threads, is_important \in BOOLEAN, formatted_memory \in SharedFacts \cup {""} :
          TurnExtracts(t, is_important, formatted_memory)
    \/ \E t \in Threads, context \in SharedContexts : TurnInjects(t, context)

SharedSpec == SharedInit /\ [][SharedNext]_vars

(***************************************************************************)
(* voice_call turns, one after the other                                   *)
(***************************************************************************)
\* what the interfaces put in user_phone_number: the WhatsApp handler the
\* sender's number, the others nothing
PhoneNumbers == {"", "+15551234567"}

\* a turn the router labelled voice_call: the input is merged,
\* voice_calling_node runs, its patch is merged, and the handler sends the
\* confirmation and shows the call it finds in active_call
VoiceCallTurn(user_phone_number, context_prepared, client_available, call_ok) ==
    /\ Len(vstate.messages) < 2 * MaxVoiceTurns
    \* a thread is served by one interface: its number does not change
    /\ vstate.messages = <<>> \/ user_phone_number = vstate.user_phone_number
    /\ LET graph_input == [messages |-> <<HumanMessage(MsgId(Len(vstate.messages) + 1, 1))>>,
                           user_phone_number |-> user_phone_number]
           state == ApplyPatch(vstate, graph_input)
           node == voice_calling(state, context_prepared, client_available, call_ok)
           output_state == IF node.returned THEN ApplyPatch(state, node.patch) ELSE state
       IN /\ vstate' = output_state
          /\ vturn' = [branch |-> node.branch, patch |-> node.patch,
                       returned |-> node.returned, placed |-> node.placed,
                       tracked |-> IF node.returned THEN output_state.active_call
                                   ELSE NoCallDetails]
          /\ dialled' = IF node.placed THEN dialled + 1 ELSE dialled
    /\ UNCHANGED graphVars /\ UNCHANGED storeVars /\ UNCHANGED chatVars
    /\ UNCHANGED raceVars /\ UNCHANGED shareVars
    /\ UNCHANGED loopVars /\ UNCHANGED endpointVars

VoiceInit == StoreInit

VoiceNext ==
    \E user_phone_number \in PhoneNumbers, context_prepared \in BOOLEAN,
       client_available \in BOOLEAN, call_ok \in BOOLEAN :
        VoiceCallTurn(user_phone_number, context_prepared, client_available, call_ok)

VoiceSpec == VoiceInit /\ [][VoiceNext]_vars

(***************************************************************************)
(* store_memory, call by call of the Qdrant client, for two callers        *)
(***************************************************************************)
\* what two callers may find: no collection, or the collection after one
\* fact was stored
InitialStores ==
    {NoStore,
     [exists |-> TRUE, points |-> {[id |-> 1, text |-> "a", timestamp |-> 1]}]}

\* the caller enters store_memory(text, metadata); the metadata was made
\* by its MemoryManager before the call
RaceCall(c, text) ==
    /\ calls[c].pc = "idle"
    /\ calls' = [calls EXCEPT ![c] = [NoCall EXCEPT !.pc = "collection_exists",
                                                     !.text = text,
                                                     !.metadata = NewMetadata]]
    /\ clock' = clock + 1
    /\ UNCHANGED <<exists, points, lastOp, initial>>
    /\ UNCHANGED graphVars /\ UNCHANGED chatVars /\ UNCHANGED shareVars /\ UNCHANGED voiceVars /\ UNCHANGED loopVars /\ UNCHANGED endpointVars

\* if not self._collection_exists()
RaceCollectionExists(c) ==
    /\ calls[c].pc = "collection_exists"
    /\ calls' = [calls EXCEPT ![c].pc =
                    IF exists THEN "find_similar_memory" ELSE "create_collection"]
    /\ UNCHANGED <<storeVars, initial>>
    /\ UNCHANGED graphVars /\ UNCHANGED chatVars /\ UNCHANGED shareVars /\ UNCHANGED voiceVars /\ UNCHANGED loopVars /\ UNCHANGED endpointVars

\* self._create_collection(): client.create_collection raises when the
\* collection is there already
RaceCreateCollection(c) ==
    /\ calls[c].pc = "create_collection"
    /\ IF exists
       THEN /\ calls' = [calls EXCEPT ![c].pc = "raised"]
            /\ UNCHANGED exists
       ELSE /\ calls' = [calls EXCEPT ![c].pc = "find_similar_memory"]
            /\ exists' = TRUE
    /\ UNCHANGED <<points, clock, lastOp, initial>>
    /\ UNCHANGED graphVars /\ UNCHANGED chatVars /\ UNCHANGED shareVars /\ UNCHANGED voiceVars /\ UNCHANGED loopVars /\ UNCHANGED endpointVars

\* similar_memory = self.find_similar_memory(text)
RaceFindSimilar(c) ==
    /\ calls[c].pc = "find_similar_memory"
    /\ \E similar \in find_similar_memory(calls[c].text) :
          calls' = [calls EXCEPT ![c].pc = "upsert", ![c].similar = similar]
    /\ UNCHANGED <<storeVars, initial>>
    /\ UNCHANGED graphVars /\ UNCHANGED chatVars /\ UNCHANGED shareVars /\ UNCHANGED voiceVars /\ UNCHANGED loopVars /\ UNCHANGED endpointVars

\* self.client.upsert(points=[point])
RaceUpsert(c) ==
    /\ calls[c].pc = "upsert"
    /\ points' = upsert(calls[c].text, calls[c].metadata, calls[c].similar)
    /\ calls' = [calls EXCEPT ![c].pc = "returned"]
    /\ UNCHANGED <<exists, clock, lastOp, initial>>
    /\ UNCHANGED graphVars /\ UNCHANGED chatVars /\ UNCHANGED shareVars /\ UNCHANGED voiceVars /\ UNCHANGED loopVars /\ UNCHANGED endpointVars

RaceInit ==
    /\ GraphIdle
    /\ ChatIdle
    /\ ShareIdle /\ VoiceIdle /\ LoopIdle /\ EndpointIdle
    /\ calls = [c \in Callers |-> NoCall]
    /\ \E store \in InitialStores :
          /\ initial = store
          /\ exists = store.exists
          /\ points = store.points
          /\ clock = Cardinality(store.points)
    /\ lastOp = NoOp

RaceNext ==
    \/ \E c \in Callers, text \in Texts : RaceCall(c, text)
    \/ \E c \in Callers : RaceCollectionExists(c)
    \/ \E c \in Callers : RaceCreateCollection(c)
    \/ \E c \in Callers : RaceFindSimilar(c)
    \/ \E c \in Callers : RaceUpsert(c)

RaceSpec == RaceInit /\ [][RaceNext]_vars

(***************************************************************************)
(* Two turns extracting memories in the one event loop                     *)
(***************************************************************************)
\* memory_extraction_node of the turn of thread t calls
\* extract_and_store_memories with its human message, which is suspended at
\* await self._analyze_memory(message.content)
LoopAnalyze(t) ==
    /\ extraction[t].pc = "idle"
    /\ extraction' = [extraction EXCEPT ![t].pc = "analyze_memory"]
    /\ together' = (together \/ \E u \in Threads \ {t} : extraction[u].pc = "analyze_memory")
    /\ UNCHANGED graphVars /\ UNCHANGED storeVars /\ UNCHANGED chatVars
    /\ UNCHANGED raceVars /\ UNCHANGED shareVars /\ UNCHANGED voiceVars
    /\ UNCHANGED endpointVars

\* faulty variant: the duplicate is looked up in the collection as it was
\* before the turns began
LoopResumeStale(t, is_important, formatted_memory) ==
    /\ extraction[t].pc = "analyze_memory"
    /\ clock < MaxOps
    /\ clock' = clock + 1
    /\ lastOp' = [NoOp EXCEPT !.op = "extract_and_store_memories", !.type = "human",
                              !.analyzed = TRUE, !.is_important = is_important,
                              !.text = formatted_memory, !.existed = exists,
                              !.before = points, !.prev = PrevText]
    /\ IF /\ is_important
          /\ formatted_memory # ""
          /\ \A p \in initial.points : Sim(p.text, formatted_memory) < SIMILARITY_THRESHOLD
       THEN /\ exists' = TRUE
            /\ points' = upsert(formatted_memory, NewMetadata, NoMemory)
       ELSE UNCHANGED <<exists, points>>
    /\ extraction' = [extraction EXCEPT ![t] =
                         [pc |-> "returned", message |-> "", is_important |-> is_important,
                          formatted_memory |-> formatted_memory]]
    /\ UNCHANGED together
    /\ UNCHANGED graphVars /\ UNCHANGED chatVars /\ UNCHANGED raceVars
    /\ UNCHANGED shareVars /\ UNCHANGED voiceVars /\ UNCHANGED endpointVars

\* the classifier answers the turn of thread t and the event loop resumes
\* it: from there extract_and_store_memories runs to its end without
\* another await, the calls of the Qdrant client being synchronous
LoopResume(t, is_important, formatted_memory) ==
    /\ extraction[t].pc = "analyze_memory"
    /\ extract_and_store_memories("human", is_important, formatted_memory)
    /\ extraction' = [extraction EXCEPT ![t] =
                         [pc |-> "returned", message |-> "", is_important |-> is_important,
                          formatted_memory |-> formatted_memory]]
    /\ UNCHANGED together
    /\ UNCHANGED shareVars /\ UNCHANGED voiceVars /\ UNCHANGED endpointVars

LoopInit == RaceInit

LoopNext ==
    \/ \E t \in Threads : LoopAnalyze(t)
    \/ \E t \in Threads, is_important \in BOOLEAN, formatted_memory \in Texts \cup {""} :
          LoopResume(t, is_important, formatted_memory)

LoopSpec == LoopInit /\ [][LoopNext]_vars

(***************************************************************************)
(* The HTTP endpoints and the voice context                                *)
(***************************************************************************)
MaxChatLen == 2
MaxContextLen == 2

\* the sequences over S of length at most n
SeqsUpTo(S, n) == UNION {[1..k -> S] : k \in 0..n}

\* what os.getenv("WHATSAPP_VERIFY_TOKEN") may give, and the query
\* parameters a verification request may carry
Secrets == {None, Some("secret")}
VerifyTokens == {None, Some("secret"), Some("guess")}
Challenges == {None, Some("1158201444")}

\* whatsapp_handler, request.method == "GET"
whatsapp_handler_get(params, secret) ==
    IF params.verify_token = secret
    THEN [status |-> 200, content |-> params.challenge]
    ELSE [status |-> 403, content |-> Some("Verification token mismatch")]

WebhookVerification(verify, challenge) ==
    /\ LET params == [verify_token |-> verify, challenge |-> challenge]
           response == whatsapp_handler_get(params, verify_token)
       IN served' = [endpoint |-> "whatsapp_response", request |-> params,
                     status |-> response.status, content |-> response.content]
    /\ UNCHANGED <<verify_token, graph_loaded>>
    /\ UNCHANGED graphVars /\ UNCHANGED storeVars /\ UNCHANGED chatVars
    /\ UNCHANGED raceVars /\ UNCHANGED shareVars /\ UNCHANGED voiceVars
    /\ UNCHANGED loopVars

\* the messages of a VapiChatRequest
VapiChatMessages == [role : {"user", "assistant"}, content : {"hello"}]

\* what graph.ainvoke does for the voice chat endpoint
GraphOutcomes == {"messages", "no_messages", "raises"}

\* the try block of handle_voice_chat
voice_chat_try(messages, graph_is_loaded, outcome) ==
    LET plain == [raised |-> "none", status |-> 200, invoked |-> FALSE,
                  model |-> "groq-llama-3.3-70b-versatile", content |-> ""]
    IN IF messages = <<>>
       THEN [plain EXCEPT !.raised = "HTTPException", !.status = 400,
                          !.content = "No messages provided"]
       ELSE IF messages[Len(messages)].role # "user"
       THEN [plain EXCEPT !.raised = "HTTPException", !.status = 400,
                          !.content = "Last message must be from user"]
       ELSE IF ~graph_is_loaded
       THEN [plain EXCEPT !.content = "I heard you say"]
       ELSE IF outcome = "raises"
       THEN [plain EXCEPT !.raised = "Exception", !.status = 500, !.invoked = TRUE]
       ELSE IF outcome = "messages"
       THEN [plain EXCEPT !.invoked = TRUE, !.content = "reply"]
       ELSE [plain EXCEPT !.invoked = TRUE, !.content = "I'm sorry, I couldn't process that"]

\* handle_voice_chat: whatever the try block raises, an HTTPException
\* included, is caught by except Exception and answered with the fallback
\* completion
handle_voice_chat(messages, graph_is_loaded, outcome) ==
    LET tried == voice_chat_try(messages, graph_is_loaded, outcome)
    IN IF tried.raised # "none"
       THEN [tried EXCEPT !.status = 200, !.model = "error-fallback",
                          !.content = "I'm having trouble processing your request"]
       ELSE tried

VoiceChat(messages, outcome) ==
    /\ LET response == handle_voice_chat(messages, graph_loaded, outcome)
       IN served' = [endpoint |-> "chat_completions", request |-> messages,
                     status |-> response.status, content |-> response.content,
                     model |-> response.model, raised |-> response.raised,
                     invoked |-> response.invoked]
    /\ UNCHANGED <<verify_token, graph_loaded>>
    /\ UNCHANGED graphVars /\ UNCHANGED storeVars /\ UNCHANGED chatVars
    /\ UNCHANGED raceVars /\ UNCHANGED shareVars /\ UNCHANGED voiceVars
    /\ UNCHANGED loopVars

\* the messages handed to prepare_voice_context: who wrote them and what
\* they say (a greeting, an introduction, a matter of work)
ContextMessages ==
    {[role |-> "human", content |-> "hi"], [role |-> "human", content |-> "i'm john"],
     [role |-> "ai", content |-> "i'm john"], [role |-> "ai", content |-> "my project"]}
UserIds == {None, Some("+15551234567")}

\* the name one of the introduction patterns finds in a text
NameIn(content) == IF content = "i'm john" THEN Some("John") ELSE None

\* extract_user_name: the name in the first human message that has one
extract_user_name(messages) ==
    LET named == {i \in 1..Len(messages) :
                     messages[i].role = "human" /\ NameIn(messages[i].content) # None}
    IN IF named = {} THEN None
       ELSE NameIn(messages[CHOOSE i \in named : \A j \in named : i <= j].content)

\* identify_conversation_topic: the topic with the most keywords in the
\* last five messages
identify_conversation_topic(messages) ==
    IF \E i \in 1..Len(messages) : i > Len(messages) - 5 /\ messages[i].content = "my project"
    THEN "Work"
    ELSE "General conversation"

_create_empty_context(calling_reason) ==
    [userName |-> "there", userId |-> "unknown",
     conversationTopic |-> "General conversation", messageCount |-> 0,
     callingReason |-> calling_reason]

DefaultCallingReason == "User requested callback"

\* faulty variant: an internal error leaves the function
prepare_voice_context_unguarded(messages, user_id, internal_error) ==
    IF messages = <<>>
    THEN [returned |-> TRUE, context |-> _create_empty_context(DefaultCallingReason)]
    ELSE IF internal_error
    THEN [returned |-> FALSE, context |-> [none |-> 0]]
    ELSE [returned |-> TRUE,
          context |-> [userName |-> "there", userId |-> "unknown",
                       conversationTopic |-> identify_conversation_topic(messages),
                       messageCount |-> Len(messages),
                       callingReason |-> DefaultCallingReason]]

\* VoiceContextManager.prepare_voice_context with the default calling
\* reason; internal_error: something in its try block raised
prepare_voice_context(messages, user_id, internal_error) ==
    IF internal_error \/ messages = <<>>
    THEN [returned |-> TRUE, context |-> _create_empty_context(DefaultCallingReason)]
    ELSE LET user_name == extract_user_name(messages)
         IN [returned |-> TRUE,
             context |-> [userName |-> IF user_name = None THEN "there" ELSE user_name[1],
                          userId |-> IF user_id = None THEN "unknown" ELSE user_id[1],
                          conversationTopic |-> identify_conversation_topic(messages),
                          messageCount |-> Len(messages),
                          callingReason |-> DefaultCallingReason]]

PrepareVoiceContext(messages, user_id, internal_error) ==
    /\ LET result == prepare_voice_context(messages, user_id, internal_error)
       IN served' = [endpoint |-> "prepare_voice_context", request |-> messages,
                     user_id |-> user_id, internal_error |-> internal_error,
                     returned |-> result.returned, context |-> result.context]
    /\ UNCHANGED <<verify_token, graph_loaded>>
    /\ UNCHANGED graphVars /\ UNCHANGED storeVars /\ UNCHANGED chatVars
    /\ UNCHANGED raceVars /\ UNCHANGED shareVars /\ UNCHANGED voiceVars
    /\ UNCHANGED loopVars

EndpointInit ==
    /\ GraphIdle /\ StoreEmpty /\ ChatIdle /\ RaceIdle /\ ShareIdle /\ VoiceIdle /\ LoopIdle
    /\ verify_token \in Secrets
    /\ graph_loaded \in BOOLEAN
    /\ served = NoExchange

EndpointNext ==
    \/ \E verify \in VerifyTokens, challenge \in Challenges :
          WebhookVerification(verify, challenge)
    \/ \E messages \in SeqsUpTo(VapiChatMessages, MaxChatLen), outcome \in GraphOutcomes :
          VoiceChat(messages, outcome)
    \/ \E messages \in SeqsUpTo(ContextMessages, MaxContextLen), user_id \in UserIds,
          internal_error \in BOOLEAN :
          PrepareVoiceContext(messages, user_id, internal_error)

EndpointSpec == EndpointInit /\ [][EndpointNext]_vars

(***************************************************************************)
(* Turns of one thread, one after the other                                *)
(***************************************************************************)
\* what the summarizer model may answer: a text, or nothing
SummaryReplies == SummaryTexts \cup {""}

\* faulty variant: the prompt never carries the summary to date
summarizer_input_without_summary(state, cov) ==
    [messages |-> Ids(state.messages), prior |-> {}]

\* what summarize_conversation_node hands to the model: every message of
\* the state and, when summary is not empty, the summary to date (cov is
\* what that summary accounts for)
summarizer_input(state, cov) ==
    [messages |-> Ids(state.messages),
     prior |-> IF state.summary # "" THEN cov ELSE {}]

\* graph.ainvoke with the inbound message, up to the response node
ChatInbound ==
    /\ phase = "inbound"
    /\ turns < MaxTurns
    /\ turns' = turns + 1
    /\ \E response_type \in {"conversation", "voice_call"} :
          chat' = ApplyPatch(ApplyPatch(chat,
                      [messages |-> <<HumanMessage(MsgId(turns + 1, 1))>>]),
                      [workflow |-> response_type])
    /\ phase' = "response"
    /\ window' = LastSlice(chat'.messages, ROUTER_MESSAGES_TO_ANALYZE)
    /\ UNCHANGED <<covered, compactions, retain>>
    /\ UNCHANGED graphVars /\ UNCHANGED storeVars /\ UNCHANGED raceVars /\ UNCHANGED shareVars /\ UNCHANGED voiceVars /\ UNCHANGED loopVars /\ UNCHANGED endpointVars

\* the response node select_workflow names, and the edge after it
ChatResponse ==
    /\ phase = "response"
    /\ LET node == select_workflow(chat)
           st == ApplyPatch(chat, [messages |-> <<AIMessage(MsgId(turns, 2))>>])
       IN /\ chat' = st
          /\ phase' = IF NextNode(node, st) = "summarize_conversation_node"
                      THEN "summarize" ELSE "inbound"
    /\ UNCHANGED <<turns, covered, compactions, window, retain>>
    /\ UNCHANGED graphVars /\ UNCHANGED storeVars /\ UNCHANGED raceVars /\ UNCHANGED shareVars /\ UNCHANGED voiceVars /\ UNCHANGED loopVars /\ UNCHANGED endpointVars

\* summarize_conversation_node; a text the model answers accounts for all
\* it was given, an empty answer for nothing
ChatSummarize ==
    /\ phase = "summarize"
    /\ \E content \in SummaryReplies :
          LET given == summarizer_input(chat, covered)
              evicted == DropLastSlice(chat.messages, retain)
              delete_messages == [i \in 1..Len(evicted) |-> RemoveMessage(evicted[i].id)]
              now == IF content # "" THEN given.messages \cup given.prior ELSE {}
          IN /\ chat' = ApplyPatch(chat, [summary |-> content,
                                          messages |-> delete_messages])
             /\ covered' = now
             /\ compactions' = Append(compactions,
                    [given |-> given, evicted |-> Ids(evicted),
                     summary_before |-> chat.summary,
                     covered_before |-> covered, content |-> content,
                     covered_after |-> now, retain |-> retain,
                     before |-> chat.messages, after |-> chat'.messages])
    /\ phase' = "inbound"
    /\ UNCHANGED <<turns, window, retain>>
    /\ UNCHANGED graphVars /\ UNCHANGED storeVars /\ UNCHANGED raceVars /\ UNCHANGED shareVars /\ UNCHANGED voiceVars /\ UNCHANGED loopVars /\ UNCHANGED endpointVars

ChatInit ==
    /\ GraphIdle
    /\ StoreEmpty
    /\ \E n \in InitLens :
          /\ chat = Prefill(n)
          /\ covered = PrefillCovered(n)
    /\ phase = "inbound"
    /\ turns = 0
    /\ compactions = <<>>
    /\ window = <<>>
    /\ retain = TOTAL_MESSAGES_AFTER_SUMMARY
    /\ RaceIdle
    /\ ShareIdle /\ VoiceIdle /\ LoopIdle /\ EndpointIdle

ChatNext == ChatInbound \/ ChatResponse \/ ChatSummarize

ChatSpec == ChatInit /\ [][ChatNext]_vars

(***************************************************************************)
(* The same turns under any configured retention count                     *)
(***************************************************************************)
\* values TOTAL_MESSAGES_AFTER_SUMMARY may be configured with: none, one,
\* the default, and one close to the trigger
RetainCounts == {0, 1, TOTAL_MESSAGES_AFTER_SUMMARY, TOTAL_MESSAGES_SUMMARY_TRIGGER - 2}

ConfiguredInit ==
    /\ GraphIdle
    /\ StoreEmpty
    /\ \E n \in InitLens :
          /\ chat = Prefill(n)
          /\ covered = PrefillCovered(n)
    /\ phase = "inbound"
    /\ turns = 0
    /\ compactions = <<>>
    /\ window = <<>>
    /\ retain \in RetainCounts
    /\ RaceIdle
    /\ ShareIdle /\ VoiceIdle /\ LoopIdle /\ EndpointIdle

ConfiguredSpec == ConfiguredInit /\ [][ChatNext]_vars

(***************************************************************************)
(* Vocabulary of the properties                                            *)
(***************************************************************************)
Nodes(r) == {visited[r][i] : i \in 1..Len(visited[r])}

ResponseNodesRun(r) == {i \in 1..Len(visited[r]) : visited[r][i] \in ResponseNodes}

\* the run of r went through the whole graph
Completed(r) == pc[r] \in {END, "respond"}

\* the edge after the response node chose the summarizer (which then ran,
\* is about to run, or raised)
SummarizeSelected(r) ==
    \/ "summarize_conversation_node" \in Nodes(r)
    \/ pc[r] = "summarize_conversation_node"
    \/ failure[r] = "summarize_conversation_node"

\* the response node of the run has returned and its edge has been taken
Responded(r) == afterResp[r] # <<>>

PreResponseOrder ==
    <<"memory_extraction_node", "router_node", "context_injection_node",
      "memory_injection_node">>

(***************************************************************************)
(* C1                                                                      *)
(***************************************************************************)
\* C1: in a turn at most one response node runs and no node runs twice; the
\* response node is the one state.workflow names (image -> image_node,
\* audio -> audio_node, voice_call -> voice_calling_node, conversation ->
\* conversation_node); a turn that goes through the graph runs exactly one.
OneResponseNodePerTurn ==
    \A r \in Reqs :
        /\ Cardinality(ResponseNodesRun(r)) <= 1
        /\ \A i, j \in 1..Len(visited[r]) : visited[r][i] = visited[r][j] => i = j
        /\ Completed(r) => Cardinality(ResponseNodesRun(r)) = 1
        /\ \A i \in ResponseNodesRun(r) :
              /\ local[r].workflow = "image" => visited[r][i] = "image_node"
              /\ local[r].workflow = "audio" => visited[r][i] = "audio_node"
              /\ local[r].workflow = "voice_call" => visited[r][i] = "voice_calling_node"
              /\ local[r].workflow = "conversation" => visited[r][i] = "conversation_node"

\* a completed turn that the router labelled audio and that ran audio_node
C1_Witness ==
    \E r \in Reqs :
        /\ Completed(r)
        /\ local[r].workflow = "audio"
        /\ "audio_node" \in Nodes(r)

(***************************************************************************)
(* C2                                                                      *)
(***************************************************************************)
\* C2: in a turn memory_extraction_node, router_node, context_injection_node
\* and memory_injection_node run in this order, each once, and all four
\* have returned before a response node starts.
PreResponseNodesInOrder ==
    \A r \in Reqs :
        /\ \A i \in 1..Len(visited[r]) :
              i <= 4 => visited[r][i] = PreResponseOrder[i]
        /\ \A i \in 1..Len(visited[r]) :
              visited[r][i] \in ResponseNodes => i = 5
        /\ pc[r] \in ResponseNodes => visited[r] = PreResponseOrder
        /\ \A i \in 1..Len(visited[r]) :
              i > 4 => \A k \in 1..4 : visited[r][i] # PreResponseOrder[k]

\* a response node is about to start after the four nodes returned
C2_Witness ==
    \E r \in Reqs :
        /\ pc[r] = "image_node"
        /\ visited[r] = PreResponseOrder

(***************************************************************************)
(* C3                                                                      *)
(***************************************************************************)
\* C3: after conversation_node, image_node or audio_node the summarizer is
\* selected if and only if the number of messages, the response included,
\* is greater than TOTAL_MESSAGES_SUMMARY_TRIGGER: not at 20, at 21 it is.
SummarizeIffAboveTrigger ==
    \A r \in Reqs :
        (Responded(r) /\ "voice_calling_node" \notin Nodes(r)) =>
            /\ SummarizeSelected(r) <=>
                   Len(afterResp[r]) > TOTAL_MESSAGES_SUMMARY_TRIGGER
            /\ Len(afterResp[r]) = 20 => ~SummarizeSelected(r)
            /\ Len(afterResp[r]) = 21 => SummarizeSelected(r)

\* a turn whose response was the 21st message and which ran the summarizer
C3_Witness ==
    \E r \in Reqs :
        /\ Len(afterResp[r]) = 21
        /\ "summarize_conversation_node" \in Nodes(r)

\* a turn whose response was the 20th message and which ended without it
C3_WitnessAtTrigger ==
    \E r \in Reqs :
        /\ Len(afterResp[r]) = 20
        /\ Completed(r)
        /\ "conversation_node" \in Nodes(r)

VoiceCallNeverSummarizes ==
    \A r \in Reqs :
        "voice_calling_node" \in Nodes(r) =>
            /\ ~SummarizeSelected(r)
            /\ Completed(r)
            /\ visited[r][Len(visited[r])] = "voice_calling_node"

\* a voice_call turn that ended with more messages than the trigger
C5_Witness ==
    \E r \in Reqs :
        /\ Completed(r)
        /\ "voice_calling_node" \in Nodes(r)
        /\ Len(local[r].messages) > TOTAL_MESSAGES_SUMMARY_TRIGGER

(***************************************************************************)
(* C6                                                                      *)
(***************************************************************************)
\* C6 as stated, with the trigger as the bound: every completed turn, of
\* any workflow, ends with at most TOTAL_MESSAGES_SUMMARY_TRIGGER messages.
WindowBounded ==
    \A r \in Reqs :
        Completed(r) => Len(local[r].messages) <= TOTAL_MESSAGES_SUMMARY_TRIGGER

\* C6: a completed conversation, image or audio turn ends with at most
\* TOTAL_MESSAGES_SUMMARY_TRIGGER messages; a completed voice_call turn
\* ends with two messages more than the thread had, whatever its length.
WindowBoundedExceptVoiceCall ==
    \A r \in Reqs :
        Completed(r) =>
            IF "voice_calling_node" \in Nodes(r)
            THEN Len(local[r].messages) = Len(before[r].messages) + 2
            ELSE Len(local[r].messages) <= TOTAL_MESSAGES_SUMMARY_TRIGGER

\* a conversation turn on a thread above the trigger that ended compacted
C6_Witness ==
    \E r \in Reqs :
        /\ Completed(r)
        /\ "voice_calling_node" \notin Nodes(r)
        /\ Len(before[r].messages) >= TOTAL_MESSAGES_SUMMARY_TRIGGER
        /\ Len(local[r].messages) <= TOTAL_MESSAGES_SUMMARY_TRIGGER

(***************************************************************************)
(* C7                                                                      *)
(***************************************************************************)
\* C7: the value router_node writes to workflow is one of conversation,
\* image, audio, voice_call; no other value is ever stored in workflow.
RouterWritesOnlyLabels ==
    /\ \A r \in Reqs :
          "router_node" \in Nodes(r) => local[r].workflow \in WorkflowLabels
    /\ \A t \in Threads : persisted[t].workflow \in WorkflowLabels \cup {"unset"}

(***************************************************************************)
(* C8                                                                      *)
(***************************************************************************)
\* C8: a structured-output answer of the router that fails validation never
\* fails the turn: after a bounded number of retries workflow falls back to
\* conversation and the turn goes on to a response node.
RouterValidationFallsBack ==
    \A r \in Reqs :
        pc[r] = "failed" => failure[r] # "router_validation"

(***************************************************************************)
(* C9                                                                      *)
(***************************************************************************)
\* no other request names the thread of r
Alone(r) == \A q \in Reqs \ {r} : thread[q] # thread[r]

\* C9: when a node of a turn fails, the persisted state of the thread
\* (messages, summary, workflow, memory_context) is the state before the
\* turn; the inbound user message is not in it.
NoPartialCommit ==
    \A r \in Reqs :
        (pc[r] = "failed" /\ Alone(r)) =>
            /\ persisted[thread[r]] = before[r]
            /\ MsgId(TurnNo(r), 1) \notin Ids(persisted[thread[r]].messages)

(***************************************************************************)
(* C10                                                                     *)
(***************************************************************************)
Succeeded(r) == pc[r] \in {"respond", "returned_200"}

\* C10: when m1 and then m2 arrived for the same thread and both turns
\* went through, the thread ends with m1, response(m1), m2, response(m2) in
\* this order, none of them lost or overwritten.
ArrivalOrderKept ==
    \A t \in Threads :
        (\A r \in Reqs : thread[r] = t /\ Succeeded(r)) =>
            LET m == persisted[t].messages
                n == Len(m)
            IN /\ n >= 4
               /\ m[n - 3] = HumanMessage(MsgId(1, 1))
               /\ m[n - 2].id = MsgId(1, 2)
               /\ m[n - 1] = HumanMessage(MsgId(2, 1))
               /\ m[n].id = MsgId(2, 2)

(***************************************************************************)
(* C11                                                                     *)
(***************************************************************************)
\* identifiers of the messages thread t held at the start
PrefillIds(t) == IF t = "t1" THEN 1..MaxPrefill ELSE {}

\* identifiers of the messages a turn on thread t may hold: those the thread
\* started with and those of the requests that name t
OwnIds(t) ==
    PrefillIds(t) \cup
    UNION {{MsgId(TurnNo(q), 1), MsgId(TurnNo(q), 2)} : q \in {x \in Reqs : thread[x] = t}}

\* C11: a turn run with thread_id A neither reads nor changes what is
\* stored under another thread_id B: the state of a thread changes only
\* in a step of a request that names it; a run starts from the state of
\* its own thread, and neither a run nor a thread ever holds a message of
\* another thread.
ThreadsIndependent ==
    /\ [](\A t \in Threads : Ids(persisted[t].messages) \subseteq OwnIds(t))
    /\ [](\A r \in Reqs : thread[r] # NoThread =>
              Ids(local[r].messages) \subseteq OwnIds(thread[r]))
    /\ [][/\ \A t \in Threads :
                persisted'[t] # persisted[t] =>
                    \E r \in Reqs : thread[r] = t /\ pc'[r] # pc[r]
          /\ \A r \in Reqs :
                (pc[r] = "received" /\ pc'[r] # pc[r]) =>
                    /\ before'[r] = persisted[thread[r]]
                    /\ \A f \in {"summary", "workflow", "memory_context"} :
                          local'[r][f] = persisted[thread[r]][f]]_vars

\* two turns run at the same time on the two threads and both went through
C11_Witness ==
    /\ thread["r1"] = "t1" /\ thread["r2"] = "t2"
    /\ pc["r1"] = END /\ pc["r2"] = END
    /\ persisted["t1"].messages # <<>>
    /\ Len(persisted["t2"].messages) = 2

(***************************************************************************)
(* C12                                                                     *)
(***************************************************************************)
\* C12: after any sequence of store_memory and extract_and_store_memories
\* operations no two records of the collection have a similarity at or
\* above SIMILARITY_THRESHOLD.
NoNearDuplicates ==
    \A p, q \in points :
        p # q => Sim(p.text, q.text) < SIMILARITY_THRESHOLD

\* the same, for the sequences in which store_memory is reached through
\* extract_and_store_memories only
NoNearDuplicatesByExtraction ==
    [](lastOp.op # "store_memory") => []NoNearDuplicates

(***************************************************************************)
(* C13                                                                     *)
(***************************************************************************)
\* the records of a collection that hold the text x
Holding(x, pts) == {p \in pts : p.text = x}

C13_WitnessExtract ==
    /\ lastOp.op = "extract_and_store_memories"
    /\ StoresText(lastOp)
    /\ lastOp.prev = lastOp.text
    /\ Cardinality(Holding(lastOp.text, points)) = 1

(***************************************************************************)
(* C14                                                                     *)
(***************************************************************************)
\* C14: when extract_and_store_memories is given an important fact whose
\* nearest record has a similarity of SIMILARITY_THRESHOLD or more, the
\* record of that id now holds the new text and the new timestamp and the
\* number of records is unchanged; below the threshold a record with a
\* fresh id is inserted.
ExtractionUpsertsNearDuplicate ==
    (lastOp.op = "extract_and_store_memories" /\ StoresText(lastOp)) =>
        IF lastOp.similar # NoMemory
        THEN /\ [id |-> lastOp.similar.id, text |-> lastOp.text,
                 timestamp |-> clock] \in points
             /\ Cardinality(points) = Cardinality(lastOp.before)
        ELSE /\ [id |-> clock, text |-> lastOp.text, timestamp |-> clock] \in points
             /\ Cardinality(points) = Cardinality(lastOp.before) + 1

\* the part of C14 below the threshold: a fresh record is inserted
ExtractionInsertsWhenDissimilar ==
    (lastOp.op = "extract_and_store_memories" /\ StoresText(lastOp)
        /\ lastOp.similar = NoMemory) =>
        /\ [id |-> clock, text |-> lastOp.text, timestamp |-> clock] \in points
        /\ lastOp.before \subseteq points
        /\ Cardinality(points) = Cardinality(lastOp.before) + 1

(***************************************************************************)
(* C15                                                                     *)
(***************************************************************************)
\* C15: extract_and_store_memories leaves the vector store as it was when
\* the message is not user-authored, and then the importance classifier is
\* not called at all, and when the classifier answers is_important = false
\* or gives no formatted text.
ExtractionIgnoresUnimportant ==
    lastOp.op = "extract_and_store_memories" =>
        /\ lastOp.type # "human" =>
              /\ ~lastOp.analyzed
              /\ points = lastOp.before
              /\ exists = lastOp.existed
        /\ (lastOp.type = "human" /\ (~lastOp.is_important \/ lastOp.text = "")) =>
              /\ lastOp.analyzed
              /\ points = lastOp.before
              /\ exists = lastOp.existed

\* a message not written by the user was processed on a filled collection
C15_Witness ==
    /\ lastOp.op = "extract_and_store_memories"
    /\ lastOp.type = "ai"
    /\ points # {}

\* the classifier found a human message unimportant on a filled collection
C15_WitnessUnimportant ==
    /\ lastOp.op = "extract_and_store_memories"
    /\ lastOp.type = "human"
    /\ lastOp.analyzed /\ ~lastOp.is_important /\ lastOp.text # ""
    /\ points # {}

(***************************************************************************)
(* C16                                                                     *)
(***************************************************************************)
\* C16: when the vector store is unavailable as memory_injection_node
\* searches it, the turn is not failed: memory_context is empty and the
\* turn goes on to the response node.
RetrievalFailureNonFatal ==
    \A r \in Reqs :
        pc[r] = "failed" => failure[r] # "memory_injection_node"

(***************************************************************************)
(* C17                                                                     *)
(***************************************************************************)
\* C17: when the vector store is unavailable as memory_extraction_node
\* writes a fact, the turn is not failed: the fact is dropped and the turn
\* goes on to the router and to the reply.
StorageFailureNonFatal ==
    \A r \in Reqs :
        pc[r] = "failed" => failure[r] # "memory_store"

(***************************************************************************)
(* C18                                                                     *)
(***************************************************************************)
\* C18: a failure of the summarizer call or of the importance classifier
\* call does not abort the turn: no turn is failed by either, and a turn
\* whose summarizer failed still returns the reply it produced.
SummarizerAndClassifierFailuresSkipped ==
    \A r \in Reqs :
        pc[r] = "failed" =>
            failure[r] \notin {"summarize_conversation_node", "memory_classifier"}

\* C18, the summarizer alone: its failure does not fail the turn
SummarizerFailureSkipped ==
    \A r \in Reqs :
        pc[r] = "failed" => failure[r] # "summarize_conversation_node"

\* C18, the classifier alone: its failure does not fail the turn
ClassifierFailureSkipped ==
    \A r \in Reqs :
        pc[r] = "failed" => failure[r] # "memory_classifier"

(***************************************************************************)
(* C19                                                                     *)
(***************************************************************************)
IsPrefix(a, b) == Len(a) <= Len(b) /\ SubSeq(b, 1, Len(a)) = a

IsSuffix(a, b) == Len(a) <= Len(b) /\ SubSeq(b, Len(b) - Len(a) + 1, Len(b)) = a

\* the handler of r has returned
Returned(r) == pc[r] \in {"returned_200", "returned_500"}

\* C19: messages changes only by appending at the end, or by
\* summarize_conversation_node removing a prefix: in every step of a run the
\* messages of the run extend what they were (what the thread held, when
\* the run starts), except in a step of summarize_conversation_node, where
\* they are a suffix of what they were; the same holds for the messages
\* stored for the thread in every step of a run that no other run of the
\* thread has overlapped with.
MessagesAppendOnly ==
    [][/\ \A r \in Reqs :
             (pc'[r] # pc[r] /\ ~Returned(r)' ) =>
                 IF pc[r] = "summarize_conversation_node" /\ pc'[r] # "failed"
                 THEN IsSuffix(local'[r].messages, local[r].messages)
                 ELSE IF pc[r] = "received"
                 THEN IsPrefix(persisted[thread[r]].messages, local'[r].messages)
                 ELSE IsPrefix(local[r].messages, local'[r].messages)
       /\ \A r \in Reqs :
             (pc'[r] # pc[r] /\ thread[r] # NoThread
                 /\ (pc[r] = "received"
                        \/ local[r].messages = persisted[thread[r]].messages)) =>
                 IF pc[r] = "summarize_conversation_node" /\ pc'[r] # "failed"
                 THEN IsSuffix(persisted'[thread[r]].messages,
                               persisted[thread[r]].messages)
                 ELSE IsPrefix(persisted[thread[r]].messages,
                               persisted'[thread[r]].messages)]_vars

\* a thread that was compacted in one turn and appended to in the next
C19_Witness ==
    /\ thread["r1"] = "t1" /\ thread["r2"] = "t1"
    /\ pc["r1"] = "returned_200"
    /\ pc["r2"] = END
    /\ persisted["t1"].summary = "s1"
    /\ Len(persisted["t1"].messages) = TOTAL_MESSAGES_AFTER_SUMMARY + 2

(***************************************************************************)
(* C20                                                                     *)
(***************************************************************************)
\* C20: every message a compaction evicts was given to its summarizer call,
\* and so was the summary to date when it was not empty; hence what the
\* summary accounts for after the n-th compaction contains what it
\* accounted for after the (n-1)-th and every message evicted at the n-th.
SummaryCoverageMonotonic ==
    \A n \in 1..Len(compactions) :
        LET c == compactions[n]
        IN /\ c.evicted \subseteq c.given.messages
           /\ c.summary_before # "" => c.covered_before \subseteq c.given.prior
           /\ n > 1 => c.covered_before = compactions[n - 1].covered_after
           /\ c.content # "" =>
                 (c.covered_before \cup c.evicted) \subseteq c.covered_after

\* a second compaction that extended the summary of the first
C20_Witness ==
    /\ Len(compactions) = 2
    /\ compactions[1].content # ""
    /\ compactions[2].content # ""
    /\ compactions[2].given.prior = compactions[1].covered_after
    /\ compactions[2].evicted # {}
    /\ covered = compactions[2].covered_after

(***************************************************************************)
(* C21: a search of the long-term memory answers at most k records, in     *)
(* non-increasing order of score against the query, and                    *)
(* get_relevant_memories answers at most MEMORY_TOP_K texts, those of the  *)
(* search in the same order.                                               *)
(***************************************************************************)
SearchRanked ==
    lastOp.op \in {"search_memories", "get_relevant_memories"} =>
        /\ Len(lastOp.hits) <= lastOp.k
        /\ \A i, j \in 1..Len(lastOp.hits) : i < j =>
               Sim(lastOp.hits[i].text, lastOp.text) >= Sim(lastOp.hits[j].text, lastOp.text)
        /\ lastOp.op = "get_relevant_memories" =>
               /\ Len(lastOp.result) <= MEMORY_TOP_K
               /\ Len(lastOp.result) = Len(lastOp.hits)
               /\ \A i \in 1..Len(lastOp.hits) : lastOp.result[i] = lastOp.hits[i].text

\* four facts are stored and get_relevant_memories answers three of them,
\* of three different scores
C21_Witness ==
    /\ lastOp.op = "get_relevant_memories"
    /\ Cardinality(points) > MEMORY_TOP_K
    /\ Len(lastOp.result) = MEMORY_TOP_K
    /\ Sim(lastOp.result[1], lastOp.text) > Sim(lastOp.result[2], lastOp.text)
    /\ Sim(lastOp.result[2], lastOp.text) > Sim(lastOp.result[3], lastOp.text)

(***************************************************************************)
(* C22: when the response node of a turn is about to run, memory_context   *)
(* is what memory_injection_node wrote in this turn: the bullet list, one  *)
(* "- fact" line per fact in the order of the retrieval, of the facts      *)
(* retrieved from the last three messages, or the empty string when none   *)
(* was found; it is never the value an earlier turn left.                  *)
(***************************************************************************)
MemoryContextOfThisTurn ==
    \A r \in Reqs : pc[r] \in ResponseNodes =>
        /\ \E memories \in RelevantMemories(recent_context(local[r])) :
              local[r].memory_context = format_memories_for_prompt(memories)
        /\ local[r].memory_context \in
              (IF TurnNo(r) = 1 THEN {"", "- a\n- b"} ELSE {"", "- c"})

\* a turn on a thread whose last turn left a memory_context finds nothing,
\* and its response node is about to run with the empty string
C22_Witness ==
    \E r \in Reqs :
        /\ pc[r] \in ResponseNodes
        /\ before[r].memory_context # ""
        /\ local[r].memory_context = ""

\* the second turn of a thread: the first left two bullets, the second
\* retrieved one
C22_WitnessSecondTurn ==
    \E r \in Reqs :
        /\ pc[r] \in ResponseNodes
        /\ before[r].memory_context = "- a\n- b"
        /\ local[r].memory_context = "- c"

(***************************************************************************)
(* C23                                                                     *)
(***************************************************************************)
\* the collection after store_memory(text, metadata) run alone on store
SerialStore(store, text, metadata) ==
    LET best == {p \in store.points :
                    \A q \in store.points : Sim(q.text, text) <= Sim(p.text, text)}
        found == IF best = {} THEN {NoMemory}
                 ELSE {IF Sim(p.text, text) >= SIMILARITY_THRESHOLD THEN p ELSE NoMemory :
                          p \in best}
    IN {[exists |-> TRUE,
         points |-> LET id == IF similar # NoMemory THEN similar.id ELSE metadata.id
                    IN {p \in store.points : p.id # id} \cup
                          {[id |-> id, text |-> text, timestamp |-> metadata.timestamp]}] :
           similar \in found}

\* the collections the calls of c and then d, one after the other, may leave
SerialOrder(c, d) ==
    UNION {SerialStore(mid, calls[d].text, calls[d].metadata) :
              mid \in SerialStore(initial, calls[c].text, calls[c].metadata)}

\* C23: two store_memory calls that run at the same time are each atomic:
\* neither raises, and once both have returned the collection is what one
\* of the two serial orders of the calls leaves.
StoreCallsAtomic ==
    /\ \A c \in Callers : calls[c].pc # "raised"
    /\ (\A c \in Callers : calls[c].pc = "returned") =>
           [exists |-> exists, points |-> points] \in
               SerialOrder("p1", "p2") \cup SerialOrder("p2", "p1")

\* no call raises (the first half alone)
StoreCallsNeverRaise == \A c \in Callers : calls[c].pc # "raised"

\* both returned and the collection is that of no serial order
StoreCallsNotSerial ==
    /\ \A c \in Callers : calls[c].pc = "returned"
    /\ [exists |-> exists, points |-> points] \notin
           SerialOrder("p1", "p2") \cup SerialOrder("p2", "p1")

(***************************************************************************)
(* C24: a missing required credential or setting is detected when the      *)
(* process initialises, before the first turn is accepted: no node of a    *)
(* turn ever fails because of the configuration.                           *)
(***************************************************************************)
ConfigurationFailsFast ==
    \A r \in Reqs : ~(pc[r] = "failed" /\ failure[r] = "configuration")

(***************************************************************************)
(* C25: the collection is created lazily. A write leaves the collection    *)
(* present, creating it exactly when it was absent; a search, and the      *)
(* look-up for a similar record, of an absent collection answers nothing   *)
(* and does not create it; an absent collection holds no record.           *)
(***************************************************************************)
CollectionCreatedLazily ==
    /\ ~exists => points = {}
    /\ lastOp.op = "store_memory" => exists
    /\ (exists /\ ~lastOp.existed) =>
           /\ StoresText(lastOp)
           /\ lastOp.before = {}
           /\ Cardinality(points) = 1
    /\ lastOp.op \in {"search_memories", "get_relevant_memories"} =>
           /\ exists = lastOp.existed
           /\ points = lastOp.before
           /\ ~lastOp.existed => lastOp.hits = <<>> /\ lastOp.result = <<>>
    /\ (StoresText(lastOp) /\ ~lastOp.existed) => lastOp.similar = NoMemory

\* the first fact is written to an absent collection, which now exists
C25_Witness ==
    /\ lastOp.op = "store_memory"
    /\ ~lastOp.existed
    /\ exists
    /\ points # {}

\* a search of the absent collection answered nothing and left it absent
C25_WitnessSearch ==
    /\ lastOp.op = "search_memories"
    /\ ~lastOp.existed
    /\ ~exists
    /\ lastOp.hits = <<>>

(***************************************************************************)
(* C26: the router is given the last ROUTER_MESSAGES_TO_ANALYZE (3)        *)
(* messages of the thread, in their order, all of them when the thread     *)
(* holds no more than that, and never the whole of a longer history.       *)
(***************************************************************************)
RouterSeesTrailingWindow ==
    phase = "response" =>
        LET n == Len(chat.messages)
            k == IF n < ROUTER_MESSAGES_TO_ANALYZE THEN n ELSE ROUTER_MESSAGES_TO_ANALYZE
        IN /\ Len(window) = k
           /\ \A i \in 1..k : window[i] = chat.messages[n - k + i]
           /\ n > ROUTER_MESSAGES_TO_ANALYZE => window # chat.messages

\* the router ran on a thread of more than three messages and was given
\* three, the last of them the message of the turn
C26_Witness ==
    /\ phase = "response"
    /\ Len(chat.messages) > TOTAL_MESSAGES_SUMMARY_TRIGGER
    /\ Len(window) = ROUTER_MESSAGES_TO_ANALYZE
    /\ window[ROUTER_MESSAGES_TO_ANALYZE] = HumanMessage(MsgId(turns, 1))

\* the first message of a thread: the router was given that one message
C26_WitnessFirstMessage ==
    /\ phase = "response"
    /\ Len(chat.messages) = 1
    /\ window = chat.messages

(***************************************************************************)
(* C27: patches are merged field by field, a field absent from a patch     *)
(* keeps its value. While the summarizer has not run in a turn, summary is *)
(* what it was when the turn started; likewise workflow until the router   *)
(* has run and memory_context until memory_injection_node has run; and     *)
(* after memory_extraction_node the state is the state at the start with   *)
(* the message of the turn appended, no field changed.                     *)
(***************************************************************************)
PatchesMergedFieldwise ==
    \A r \in Reqs : visited[r] # <<>> =>
        /\ "summarize_conversation_node" \notin Nodes(r) =>
               local[r].summary = before[r].summary
        /\ "router_node" \notin Nodes(r) =>
               local[r].workflow = before[r].workflow
        /\ "memory_injection_node" \notin Nodes(r) =>
               local[r].memory_context = before[r].memory_context
        /\ ResponseNodesRun(r) = {} =>
               local[r].messages =
                   Append(before[r].messages, HumanMessage(MsgId(TurnNo(r), 1)))

\* a turn without summarization went through the whole graph on a thread
\* that has a summary: workflow and memory_context were rewritten, the
\* summary is the one of the start
C27_Witness ==
    \E r \in Reqs :
        /\ pc[r] = END
        /\ "summarize_conversation_node" \notin Nodes(r)
        /\ before[r].summary # ""
        /\ local[r].summary = before[r].summary
        /\ local[r].workflow # before[r].workflow
        /\ local[r].memory_context # before[r].memory_context

(***************************************************************************)
(* C28: when every node call returns, every turn reaches the terminal      *)
(* marker, after at most six node executions (the four fixed stages, one   *)
(* response node and at most one summarization) and without running a      *)
(* node twice.                                                             *)
(***************************************************************************)
TurnTerminates ==
    /\ \A r \in Reqs : (pc[r] = "received") ~> (pc[r] = END)
    /\ [](\A r \in Reqs :
            /\ Len(visited[r]) <= 6
            /\ \A i, j \in 1..Len(visited[r]) : i # j => visited[r][i] # visited[r][j]
            /\ pc[r] = END => Len(visited[r]) \in {5, 6})

\* a turn reached the terminal marker after six node executions
C28_Witness ==
    \E r \in Reqs :
        /\ pc[r] = END
        /\ Len(visited[r]) = 6
        /\ visited[r][6] = "summarize_conversation_node"

(***************************************************************************)
(* C29                                                                     *)
(***************************************************************************)
\* p is among the MEMORY_TOP_K best records for the query whatever the
\* order among equal scores
RanksInTopK(p, query) ==
    Cardinality({q \in points \ {p} : Sim(q.text, query) >= Sim(p.text, query)})
        < MEMORY_TOP_K

ReplyIsLastAssistantMessage ==
    \A r \in Reqs : Completed(r) =>
        LET messages == local[r].messages
            reply == MsgId(TurnNo(r), 2)
        IN /\ Len(afterResp[r]) = Len(before[r].messages) + 2
           /\ messages # <<>>
           /\ messages[Len(messages)] = AIMessage(reply)

\* the same without the tag: the message the response node appended is the
\* last element of messages
ReplyIsLastMessage ==
    \A r \in Reqs : Completed(r) =>
        LET messages == local[r].messages
        IN /\ Len(afterResp[r]) = Len(before[r].messages) + 2
           /\ messages # <<>>
           /\ messages[Len(messages)].id = MsgId(TurnNo(r), 2)

\* the reply is assistant-tagged unless audio_node wrote it
ReplyTaggedUnlessAudio ==
    \A r \in Reqs : (Completed(r) /\ "audio_node" \notin Nodes(r)) =>
        local[r].messages[Len(local[r].messages)] = AIMessage(MsgId(TurnNo(r), 2))

(***************************************************************************)
(* C31: at the end of every turn that ends in conversation, image or       *)
(* audio the thread holds at most TOTAL_MESSAGES_SUMMARY_TRIGGER messages, *)
(* whatever its length at the start and whatever retention count up to the *)
(* trigger is configured.                                                  *)
(***************************************************************************)
WindowBoundedForAnyRetention ==
    (phase = "inbound" /\ turns > 0 /\ chat.workflow # "voice_call") =>
        Len(chat.messages) <= TOTAL_MESSAGES_SUMMARY_TRIGGER

\* the same for the retention counts from 1 to the trigger
WindowBoundedForPositiveRetention ==
    (phase = "inbound" /\ turns > 0 /\ chat.workflow # "voice_call" /\ retain >= 1) =>
        Len(chat.messages) <= TOTAL_MESSAGES_SUMMARY_TRIGGER

(***************************************************************************)
(* C32: for every configured retention count K from 0 to the number of     *)
(* messages, K = 0 included, summarize_conversation_node leaves exactly K  *)
(* messages in the thread.                                                 *)
(***************************************************************************)
SummarizeLeavesExactlyK ==
    \A i \in 1..Len(compactions) :
        compactions[i].retain <= Len(compactions[i].before) =>
            Len(compactions[i].after) = compactions[i].retain

\* the same for K from 1, the K left being the last K in their order
SummarizeLeavesLastPositiveK ==
    \A i \in 1..Len(compactions) :
        (compactions[i].retain >= 1
            /\ compactions[i].retain <= Len(compactions[i].before)) =>
            compactions[i].after =
                LastSlice(compactions[i].before, compactions[i].retain)

(***************************************************************************)
(* C33: the node select_workflow chose and the delivery the handler        *)
(* chooses agree, for every value of workflow: audio is delivered iff      *)
(* audio_node ran, an image iff image_node ran, the call confirmation iff  *)
(* voice_calling_node ran, plain text iff conversation_node ran.           *)
(***************************************************************************)
DeliveryAgreesWithNode ==
    \A r \in Reqs : pc[r] = "respond" =>
        /\ output[r].mode = "audio" <=> "audio_node" \in Nodes(r)
        /\ output[r].mode = "image" <=> "image_node" \in Nodes(r)
        /\ output[r].mode = "voice_call" <=> "voice_calling_node" \in Nodes(r)
        /\ output[r].mode = "text" <=> "conversation_node" \in Nodes(r)

\* the same for a turn whose thread no other request names
DeliveryAgreesWhenAlone ==
    \A r \in Reqs : (pc[r] = "respond" /\ Alone(r)) =>
        /\ output[r].mode = "audio" <=> "audio_node" \in Nodes(r)
        /\ output[r].mode = "image" <=> "image_node" \in Nodes(r)
        /\ output[r].mode = "voice_call" <=> "voice_calling_node" \in Nodes(r)
        /\ output[r].mode = "text" <=> "conversation_node" \in Nodes(r)

(***************************************************************************)
(* C34: voice_calling_node never fails the turn. When the phone number is  *)
(* missing, the Vapi client is unavailable or the outbound call raises, it *)
(* returns a patch of exactly one assistant message and nothing else; and  *)
(* no call is placed when the number is missing or the client unavailable. *)
(***************************************************************************)
VoiceCallingNeverFails ==
    /\ vturn.returned
    /\ vturn.branch \in {"no_phone", "no_client", "call_raised"} =>
           /\ DOMAIN vturn.patch = {"messages"}
           /\ Len(vturn.patch.messages) = 1
           /\ vturn.patch.messages[1].role = "ai"
           /\ vstate.messages[Len(vstate.messages)] = vturn.patch.messages[1]
    /\ vturn.branch \in {"no_phone", "no_client"} => ~vturn.placed
    /\ vturn.branch = "no_phone" <=>
           (vturn.branch # "none" /\ vstate.user_phone_number = "")

\* after a call was placed in an earlier turn, a turn's outbound call raised
\* and the turn returned its one message
C34_Witness ==
    /\ vturn.branch = "call_raised"
    /\ vturn.returned
    /\ dialled >= 1
    /\ Len(vturn.patch.messages) = 1

(***************************************************************************)
(* C35: at the end of a voice_call turn active_call (with                  *)
(* call_initiated_at and voice_context_used) describes a call if and only  *)
(* if a call was initiated in that same turn; a turn whose call failed     *)
(* shows the call tracking no call of an earlier turn.                     *)
(***************************************************************************)
ActiveCallOfThisTurn ==
    vturn.branch # "none" =>
        /\ vstate.active_call # NoCallDetails <=> vturn.branch = "initiated"
        /\ vstate.call_initiated_at # 0 <=> vturn.branch = "initiated"
        /\ vstate.voice_context_used # NoVoiceContext <=> vturn.branch = "initiated"
        /\ vturn.branch # "initiated" => vturn.tracked = NoCallDetails

\* when a call was initiated in the turn, the details are those of that call
ActiveCallOfInitiatedTurn ==
    vturn.branch = "initiated" =>
        /\ vstate.active_call = vturn.patch.active_call
        /\ vstate.active_call.call_id = dialled
        /\ vturn.tracked = vstate.active_call

VerificationNeedsMatchingToken ==
    served.endpoint = "whatsapp_response" =>
        IF /\ served.request.verify_token # None
           /\ served.request.verify_token = verify_token
        THEN served.status = 200 /\ served.content = served.request.challenge
        ELSE served.status = 403

\* with the secret configured the answer is as stated
VerificationWhenConfigured ==
    (served.endpoint = "whatsapp_response" /\ verify_token # None) =>
        IF served.request.verify_token = verify_token
        THEN served.status = 200 /\ served.content = served.request.challenge
        ELSE served.status = 403

(***************************************************************************)
(* C38: the voice chat endpoint rejects with HTTP 400 a request whose      *)
(* message list is empty or whose last message is not from the user, and   *)
(* does not invoke the graph for it.                                       *)
(***************************************************************************)
VoiceChatRejectsWith400 ==
    (/\ served.endpoint = "chat_completions"
     /\ \/ served.request = <<>>
        \/ served.request[Len(served.request)].role # "user") =>
        /\ served.status = 400
        /\ ~served.invoked

\* such a request does not reach the graph, and is answered 200 with the
\* fallback completion
VoiceChatRejectedNotInvoked ==
    (/\ served.endpoint = "chat_completions"
     /\ \/ served.request = <<>>
        \/ served.request[Len(served.request)].role # "user") =>
        /\ ~served.invoked
        /\ served.raised = "HTTPException"
        /\ served.status = 200
        /\ served.model = "error-fallback"

(***************************************************************************)
(* C39: prepare_voice_context never raises. For any list of messages it    *)
(* returns a context with userName, conversationTopic, messageCount and    *)
(* callingReason, messageCount being the number of messages given; for an  *)
(* empty list, or on an internal error, it returns the default context     *)
(* with messageCount 0 and userName there.                                 *)
(***************************************************************************)
VoiceContextAlwaysReturned ==
    served.endpoint = "prepare_voice_context" =>
        /\ served.returned
        /\ {"userName", "conversationTopic", "messageCount", "callingReason"}
               \subseteq DOMAIN served.context
        /\ ~served.internal_error => served.context.messageCount = Len(served.request)
        /\ (served.request = <<>> \/ served.internal_error) =>
               /\ served.context = _create_empty_context(DefaultCallingReason)
               /\ served.context.messageCount = 0
               /\ served.context.userName = "there"

\* a conversation of two messages in which the user gave a name, prepared
\* without error
C39_Witness ==
    /\ served.endpoint = "prepare_voice_context"
    /\ ~served.internal_error
    /\ served.returned
    /\ served.context.messageCount = 2
    /\ served.context.userName = "John"

\* an internal error on a conversation that is not empty
C39_WitnessInternalError ==
    /\ served.endpoint = "prepare_voice_context"
    /\ served.internal_error
    /\ served.request # <<>>
    /\ served.context.messageCount = 0

====
